---- MODULE Spec2Model ----
(***************************************************************************)
(* Model of the ST.003 (parameter alignment) and ST.005 (indentation       *)
(* level) checkers of src/rules/st_rules/rule_003.py and rule_005.py.      *)
(*                                                                         *)
(* A source line is a sequence of one-character strings; a file is a       *)
(* sequence of lines (content.split('\n')).  Positions returned by Find    *)
(* and carried in diagnostics are Python's 0-based positions.              *)
(***************************************************************************)
EXTENDS Integers, Sequences, FiniteSets, TLC

(***************************************************************************)
(* Characters and str methods                                              *)
(***************************************************************************)
\* str.strip() / lstrip() / rstrip() / regex \s : the whitespace that occurs
\* inside a line of the modelled files (space and tab).
WS == {" ", "\t"}

Upper == {"A","B","C","D","E","F","G","H","I","J","K","L","M",
          "N","O","P","Q","R","S","T","U","V","W","X","Y","Z"}

Lower == {"a","b","c","d","e","f","g","h","i","j","k","l","m",
          "n","o","p","q","r","s","t","u","v","w","x","y","z"}

Digit == {"0","1","2","3","4","5","6","7","8","9"}

\* [a-zA-Z_] and [a-zA-Z0-9_]
IdStart == Upper \cup Lower \cup {"_"}

IdChar == IdStart \cup Digit

Max(a, b) == IF a >= b THEN a ELSE b

Min(a, b) == IF a <= b THEN a ELSE b

Abs(a) == IF a >= 0 THEN a ELSE 0 - a

\* s[a:b] with 0 <= a
Slice(s, a, b) == SubSeq(s, a + 1, Min(b, Len(s)))

\* s[a:]
From(s, a) == SubSeq(s, a + 1, Len(s))

\* number of leading characters of s that belong to cs
LeadIn(s, cs) ==
    IF \A i \in 1..Len(s) : s[i] \in cs THEN Len(s)
    ELSE (CHOOSE i \in 1..Len(s) :
            s[i] \notin cs /\ \A j \in 1..(i - 1) : s[j] \in cs) - 1

\* number of trailing characters of s that belong to cs
TrailIn(s, cs) ==
    IF \A i \in 1..Len(s) : s[i] \in cs THEN Len(s)
    ELSE Len(s) - (CHOOSE i \in 1..Len(s) :
            s[i] \notin cs /\ \A j \in (i + 1)..Len(s) : s[j] \in cs)

LStrip(s) == From(s, LeadIn(s, WS))

RStrip(s) == Slice(s, 0, Len(s) - TrailIn(s, WS))

Strip(s) == LStrip(RStrip(s))

\* s.rstrip(',')
RStripComma(s) == Slice(s, 0, Len(s) - TrailIn(s, {","}))

\* s.strip("\"'")
StripQuotes(s) ==
    LET t == From(s, LeadIn(s, {"\"", "'"}))
    IN  Slice(t, 0, Len(t) - TrailIn(t, {"\"", "'"}))

\* s.count(c)
Count(s, c) == Cardinality({i \in 1..Len(s) : s[i] = c})

\* c in s
Has(s, c) == \E i \in 1..Len(s) : s[i] = c

\* s.find(c): 0-based position of the first c, -1 when absent
Find(s, c) ==
    IF Has(s, c)
    THEN (CHOOSE i \in 1..Len(s) : s[i] = c /\ \A j \in 1..(i - 1) : s[j] # c) - 1
    ELSE -1

\* sub in s
Contains(s, sub) ==
    \E i \in 0..(Len(s) - Len(sub)) : SubSeq(s, i + 1, i + Len(sub)) = sub

StartsWith(s, p) == Len(p) <= Len(s) /\ SubSeq(s, 1, Len(p)) = p

EndsWith(s, p) == Len(p) <= Len(s) /\ SubSeq(s, Len(s) - Len(p) + 1, Len(s)) = p

\* s.split('=', 1)[1] for a string that contains '='
AfterEq(s) == From(s, Find(s, "=") + 1)

\* len(line) - len(line.lstrip())
LeadLen(s) == LeadIn(s, WS)

\* line.expandtabs(2): a tab advances to the next even column
RECURSIVE ExpandFrom(_, _, _)
ExpandFrom(s, i, acc) ==
    IF i > Len(s) THEN acc
    ELSE IF s[i] = "\t"
         THEN ExpandFrom(s, i + 1,
                  acc \o (IF Len(acc) % 2 = 0 THEN <<" ", " ">> ELSE <<" ">>))
         ELSE ExpandFrom(s, i + 1, Append(acc, s[i]))

ExpandTabs(s) == ExpandFrom(s, 1, <<>>)

\* Body of value: a local name for a value that is computed once
With(value, Body(_)) == Body(value)

\* the concatenation of the sequences of a sequence
RECURSIVE Flatten(_)
Flatten(seqs) == IF seqs = <<>> THEN <<>> ELSE Head(seqs) \o Flatten(Tail(seqs))

(***************************************************************************)
(* Heredoc tracker                                                         *)
(***************************************************************************)
\* re.search(r'<<-?([A-Z]+)\s*$', line): group(1), or <<>> when no match.
\* The match is fixed by the tail of the line: trailing whitespace, before it
\* the maximal run of upper-case letters, before that an optional '-' and "<<".
HeredocMatch(line) ==
    LET Match(t, n, pre) ==
            IF n > 0 /\ (EndsWith(pre, <<"<", "<">>) \/ EndsWith(pre, <<"<", "<", "-">>))
            THEN From(t, Len(t) - n)
            ELSE <<>>
        Run(t, n) == Match(t, n, Slice(t, 0, Len(t) - n))
        Trail(t) == Run(t, TrailIn(t, Upper))
    IN  Trail(RStrip(line))

\* rule_005._check_heredoc_state: the state after looking at `line`.
\* A terminator of <<>> stands for None.
CheckHeredocState(line, in_heredoc, terminator) ==
    LET Start(heredoc_match) ==
            IF heredoc_match # <<>>
            THEN [in_heredoc |-> TRUE, terminator |-> heredoc_match]
            ELSE [in_heredoc |-> in_heredoc, terminator |-> terminator]
    IN  IF ~in_heredoc THEN Start(HeredocMatch(line))
        ELSE IF terminator # <<>> /\ Strip(line) = terminator
        THEN [in_heredoc |-> FALSE, terminator |-> <<>>]
        ELSE [in_heredoc |-> in_heredoc, terminator |-> terminator]

(***************************************************************************)
(* Diagnostics                                                             *)
(***************************************************************************)
\* One report(file, ruleId, message, lineNumber) call.  The message text is
\* kept as its format (kind) and the values interpolated into it:
\*   bt  the block_type text of an ST.003 message (<<>> for ST.005),
\*   x,y the numbers embedded in the text (0 when the format has none).
Diag(line_num, kind, bt, x, y) ==
    [line |-> line_num, msg |-> [kind |-> kind, bt |-> bt, x |-> x, y |-> y]]

\* "Indentation level incorrect. Current indentation: {x} spaces, Expected: {y} spaces"
IndentDiag(line_num, current, expected) ==
    Diag(line_num, "indent", <<>>, current, expected)

(***************************************************************************)
(* ST.005: indentation level (rule_005.py)                                 *)
(***************************************************************************)
KwResource == <<"r","e","s","o","u","r","c","e"," ">>

KwData == <<"d","a","t","a"," ">>

KwVariable == <<"v","a","r","i","a","b","l","e"," ">>

KwOutput == <<"o","u","t","p","u","t"," ">>

KwLocals == <<"l","o","c","a","l","s"," ">>

KwTerraform == <<"t","e","r","r","a","f","o","r","m"," ">>

KwProvider == <<"p","r","o","v","i","d","e","r"," ">>

\* line_content.startswith('resource ') or ... or startswith('provider ')
StartsWithBlockKeyword(s) ==
    \E kw \in {KwResource, KwData, KwVariable, KwOutput, KwLocals,
               KwTerraform, KwProvider} : StartsWith(s, kw)

\* rule_005._get_indentation_level: leading spaces, -1 when a tab follows them
GetIndentationLevel(line) ==
    LET n == LeadIn(line, {" "})
    IN  IF n < Len(line) /\ line[n + 1] = "\t" THEN -1 ELSE n

\* the expected indentation if a closing line were measured like any other
ExpectedIndentByNestingNoClose(line_content, current_nesting_level, brace_level, bracket_level) ==
    current_nesting_level * 2

\* The expected indentation computed at rule_005.py:243-325 for a line that
\* passed the three early checks.  brace_level and bracket_level are the
\* levels AFTER the line, current_nesting_level the sum BEFORE it.
ExpectedIndentByNesting(line_content, current_nesting_level, brace_level, bracket_level) ==
    LET close_braces   == Count(line_content, "}")
        close_brackets == Count(line_content, "]")
        open_braces    == Count(line_content, "{")
        open_brackets  == Count(line_content, "[")
        net_close_braces   == close_braces - open_braces
        net_close_brackets == close_brackets - open_brackets
        brackets_balanced == open_brackets = close_brackets /\ open_brackets > 0
        braces_balanced   == open_braces = close_braces /\ open_braces > 0
        noUnmatchedClose  == net_close_braces <= 0 /\ net_close_brackets <= 0
        is_parameter_assignment ==
            Has(line_content, "=") /\ ~StartsWith(line_content, <<"#">>)
        cleared ==
            \/ ((brackets_balanced \/ braces_balanced) /\ noUnmatchedClose)
            \/ (is_parameter_assignment /\ noUnmatchedClose)
        has_closing == (close_braces > 0 \/ close_brackets > 0) /\ ~cleared
        has_opening == (open_braces > 0 \/ open_brackets > 0) /\ ~cleared
        total_net_close == net_close_braces + net_close_brackets
        afterCloseBrackets ==
            (brace_level + Max(0, bracket_level - close_brackets)) * 2
        afterCloseBraces ==
            (Max(0, brace_level - close_braces) + bracket_level) * 2
    IN  IF has_closing /\ (net_close_braces > 0 \/ net_close_brackets > 0)
        THEN IF total_net_close = 0 /\ has_opening
             THEN IF close_brackets > 0 THEN afterCloseBrackets
                  ELSE IF close_braces > 0 THEN afterCloseBraces
                  ELSE Max(0, (current_nesting_level - total_net_close) * 2)
             ELSE Max(0, (current_nesting_level - total_net_close) * 2)
        ELSE IF has_closing /\ has_opening
        THEN IF close_brackets > 0 THEN afterCloseBrackets
             ELSE IF close_braces > 0 THEN afterCloseBraces
             ELSE current_nesting_level * 2
        ELSE current_nesting_level * 2

\* the even value chosen if odd indentations were rounded down to a multiple
\* of 4
OddIndentExpectedMultipleOfFour(indent_level) == indent_level - (indent_level % 4)

\* rule_005.py:198-213: the even value chosen for an odd indentation
OddIndentExpected(indent_level) ==
    IF indent_level = 1 THEN 2
    ELSE IF indent_level = 3 THEN 2
    ELSE IF indent_level = 5 THEN 6
    ELSE IF indent_level = 7 THEN 6
    ELSE IF indent_level = 9 THEN 8
    ELSE indent_level - 1

\* rule_005._validate_line_indentation: the report calls it makes (none or one)
ValidateLineIndentation(line_num, line_content, indent_level, is_tfvars_file, current_nesting_level, brace_level, bracket_level) ==
    IF /\ StartsWithBlockKeyword(line_content)
       /\ Has(line_content, " ")
       /\ ~EndsWith(line_content, <<"{">>)
       /\ ~Contains(line_content, <<" ", "=", " ">>)
    THEN IF indent_level > 0
         THEN <<IndentDiag(line_num, indent_level, 0)>>
         ELSE <<>>
    ELSE IF indent_level > 0 /\ indent_level % 2 # 0
    THEN <<IndentDiag(line_num, indent_level, OddIndentExpected(indent_level))>>
    ELSE IF /\ indent_level = 0
            /\ Has(line_content, "=")
            /\ ~StartsWith(line_content, <<"#">>)
            /\ ~is_tfvars_file
            /\ ~StartsWithBlockKeyword(line_content)
    THEN <<IndentDiag(line_num, indent_level, 2)>>
    ELSE LET byNesting == ExpectedIndentByNesting(line_content,
                              current_nesting_level, brace_level, bracket_level)
             expected_indent ==
                 IF indent_level % 2 # 0
                 THEN IF indent_level < byNesting
                      THEN indent_level + 1 ELSE indent_level - 1
                 ELSE byNesting
         IN  IF indent_level # expected_indent
             THEN <<IndentDiag(line_num, indent_level, expected_indent)>>
             ELSE <<>>

\* the level after a line if the decrements were not clamped
LevelAfterUnclamped(level, opens, closes) == level + (opens - closes)

\* rule_005.py:142-143: the level after a line, clamped at zero
LevelAfter(level, opens, closes) == Max(0, level + (opens - closes))

\* State of check_st005_indentation_level before its loop (rule_005.py:93-104)
IndentStart(file_is_tfvars, content) ==
    [engine |-> "indent", pc |-> "scan", tfvars |-> file_is_tfvars,
     content |-> content, i |-> 1,
     in_heredoc |-> FALSE, heredoc_terminator |-> <<>>,
     brace_level |-> 0, bracket_level |-> 0,
     suppressed |-> {}, reports |-> <<>>]

\* One iteration of the loop of check_st005_indentation_level (rule_005.py:106-152)
\* on line r.i.  `suppressed` records the line numbers skipped as heredoc content.
IndentStep(r) ==
    LET line == r.content[r.i]
        hs   == CheckHeredocState(line, r.in_heredoc, r.heredoc_terminator)
        line_content == Strip(line)
        current_nesting_level == r.brace_level + r.bracket_level
        brace_after   == LevelAfter(r.brace_level, Count(line, "{"), Count(line, "}"))
        bracket_after == LevelAfter(r.bracket_level, Count(line, "["), Count(line, "]"))
        indent_level  == GetIndentationLevel(line)
        next == [r EXCEPT !.i = r.i + 1,
                          !.pc = IF r.i + 1 > Len(r.content) THEN "done" ELSE "scan"]
    IN  IF Strip(line) = <<>> THEN next
        ELSE IF hs.in_heredoc
        THEN [next EXCEPT !.in_heredoc = TRUE,
                          !.heredoc_terminator = hs.terminator,
                          !.suppressed = r.suppressed \cup {r.i}]
        ELSE IF StartsWith(line_content, <<"#">>)
        THEN [next EXCEPT !.in_heredoc = FALSE, !.heredoc_terminator = hs.terminator]
        ELSE IF indent_level = -1
        THEN [next EXCEPT !.in_heredoc = FALSE, !.heredoc_terminator = hs.terminator,
                          !.brace_level = brace_after, !.bracket_level = bracket_after]
        ELSE [next EXCEPT !.in_heredoc = FALSE, !.heredoc_terminator = hs.terminator,
                          !.brace_level = brace_after, !.bracket_level = bracket_after,
                          !.reports = r.reports \o
                              ValidateLineIndentation(r.i, line_content, indent_level,
                                  r.tfvars, current_nesting_level,
                                  brace_after, bracket_after)]

(***************************************************************************)
(* ST.003: comment stripping and block extraction (rule_003.py)            *)
(***************************************************************************)
\* rule_003.py:159-177: the scan of one line that contains '#'.
\* quote is the open quote character, <<>> outside quotes.
RECURSIVE CleanScan(_, _, _)
CleanScan(line, i, quote) ==
    IF i > Len(line) THEN line
    ELSE IF line[i] \in {"\"", "'"} /\ (i = 1 \/ line[i - 1] # "\\")
    THEN IF quote = <<>> THEN CleanScan(line, i + 1, <<line[i]>>)
         ELSE IF <<line[i]>> = quote THEN CleanScan(line, i + 1, <<>>)
         ELSE CleanScan(line, i + 1, quote)
    ELSE IF line[i] = "#" /\ quote = <<>>
    THEN IF Strip(Slice(line, 0, i - 1)) = <<>> THEN line
         ELSE RStrip(Slice(line, 0, i - 1))
    ELSE CleanScan(line, i + 1, quote)

\* _remove_comments_for_parsing, line by line
RemoveCommentsForParsing(lines) ==
    [k \in 1..Len(lines) |->
        IF Has(lines[k], "#") THEN CleanScan(lines[k], 1, <<>>) ELSE lines[k]]

\* One name of a block header at 0-based position p of s:
\*   "([^"]+)" | '([^']+)' | ([a-zA-Z_][a-zA-Z0-9_]*)
\* Returns [ok, name, end] with end the position after the match.
HeaderName(s, p) ==
    LET NoName == [ok |-> FALSE, name |-> <<>>, end |-> p]
        Quoted(body, n) ==
            IF n > 0
            THEN [ok |-> TRUE, name |-> Slice(body, 0, n), end |-> p + n + 2]
            ELSE NoName
        InQuotes(body, q) == Quoted(body, Find(body, q))
        Bare(rest, n) == [ok |-> TRUE, name |-> Slice(rest, 0, n), end |-> p + n]
        Name(rest) ==
            IF rest = <<>> THEN NoName
            ELSE IF rest[1] \in {"\"", "'"} THEN InQuotes(From(rest, 1), rest[1])
            ELSE IF rest[1] \in IdStart THEN Bare(rest, LeadIn(rest, IdChar))
            ELSE NoName
    IN  Name(From(s, p))

\* \s*\{ at position p
OpensBraceAt(s, p) ==
    LET Opens(rest, n) == n < Len(rest) /\ rest[n + 1] = "{"
        After(rest) == Opens(rest, LeadIn(rest, WS))
    IN  After(From(s, p))

\* \s+ at position p: the number of whitespace characters (0: no match)
GapAt(s, p) == LeadIn(From(s, p), WS)

Dot(a, b) == a \o <<".">> \o b

\* The header patterns of rule_003.py:202-236 applied to a stripped line:
\* [ok, type] with type the block_type text.
HeaderMatch(line) ==
    LET NoMatch == [ok |-> FALSE, type |-> <<>>]
        Two3(kw, g0, n1, g1, n2) ==
            IF /\ g0 > 0 /\ n1.ok /\ g1 > 0 /\ n2.ok /\ OpensBraceAt(line, n2.end)
            THEN [ok |-> TRUE, type |-> Dot(Dot(kw, n1.name), n2.name)]
            ELSE NoMatch
        Two2(kw, g0, n1, g1) == Two3(kw, g0, n1, g1, HeaderName(line, n1.end + g1))
        Two1(kw, g0, n1) == Two2(kw, g0, n1, GapAt(line, n1.end))
        Two0(kw, g0) == Two1(kw, g0, HeaderName(line, Len(kw) + g0))
        One1(kw, g0, n1) ==
            IF g0 > 0 /\ n1.ok /\ OpensBraceAt(line, n1.end)
            THEN [ok |-> TRUE, type |-> Dot(kw, n1.name)]
            ELSE NoMatch
        One0(kw, g0) == One1(kw, g0, HeaderName(line, Len(kw) + g0))
        \* kw\s+NAME\s+NAME\s*\{ (names 2), kw\s+NAME\s*\{ (1), kw\s*\{ (0)
        Pattern(kw, names) ==
            IF ~StartsWith(line, kw) THEN NoMatch
            ELSE IF names = 0
            THEN IF OpensBraceAt(line, Len(kw)) THEN [ok |-> TRUE, type |-> kw]
                 ELSE NoMatch
            ELSE IF names = 1 THEN One0(kw, GapAt(line, Len(kw)))
            ELSE Two0(kw, GapAt(line, Len(kw)))
        \* data, resource, provider, locals, terraform, variable, output, in
        \* the order the code tries them
        Patterns == << <<KwData, 2>>, <<KwResource, 2>>, <<KwProvider, 1>>,
                       <<KwLocals, 0>>, <<KwTerraform, 0>>, <<KwVariable, 1>>,
                       <<KwOutput, 1>> >>
        Try(k) == Pattern(SubSeq(Patterns[k][1], 1, Len(Patterns[k][1]) - 1),
                          Patterns[k][2])
        First(matches) ==
            IF \E k \in 1..Len(matches) : matches[k].ok
            THEN matches[CHOOSE k \in 1..Len(matches) :
                            /\ matches[k].ok
                            /\ \A j \in 1..(k - 1) : ~matches[j].ok]
            ELSE NoMatch
    IN  First([k \in 1..7 |-> Try(k)])

\* rule_003.py:250-258: the body lines taken from position i (1-based) on while
\* the running brace counter is positive: [lines, next].
RECURSIVE BodyFrom(_, _, _, _)
BodyFrom(lines, i, brace_count, acc) ==
    IF i > Len(lines) \/ brace_count <= 0 THEN [lines |-> acc, next |-> i]
    ELSE BodyFrom(lines, i + 1,
                  brace_count + Count(lines[i], "{") - Count(lines[i], "}"),
                  Append(acc, lines[i]))

\* _extract_code_blocks from line i (1-based) on
RECURSIVE ExtractFrom(_, _, _)
ExtractFrom(lines, i, blocks) ==
    LET Block(type, next, body) ==
            ExtractFrom(lines, next, Append(blocks, [type |-> type, start |-> i, lines |-> body]))
        Body(type, b, n) ==
            Block(type, b.next,
                  IF n > 0 /\ Strip(b.lines[n]) = <<"}">>
                  THEN SubSeq(b.lines, 1, n - 1) ELSE b.lines)
        Taken(type, b) == Body(type, b, Len(b.lines))
        Header(line, h) ==
            IF ~h.ok THEN ExtractFrom(lines, i + 1, blocks)
            ELSE IF Has(line, "{") /\ Has(line, "}") THEN Block(h.type, i + 1, <<>>)
            ELSE Taken(h.type, BodyFrom(lines, i + 1, 1, <<>>))
        Line(line) == Header(line, HeaderMatch(line))
    IN  IF i > Len(lines) THEN blocks
        ELSE Line(Strip(lines[i]))

\* _extract_code_blocks(content): the blocks as [type, start, lines], start the
\* 1-based line number of the header
ExtractCodeBlocks(lines) == ExtractFrom(lines, 1, <<>>)

(***************************************************************************)
(* ST.003: _split_into_code_sections, helpers (rule_003.py:271-1350)       *)
(*                                                                         *)
(* A section is a Python list of (line, line_idx) tuples; the line of a    *)
(* tuple is always block_lines[line_idx] of the analysis that built it, so *)
(* a section is kept as the sequence of its 0-based line indices.  The     *)
(* forward pass puts the same list object into sections and section_stack, *)
(* so lists live in a heap and are referred to by their position in it.    *)
(***************************************************************************)
FunctionPatterns ==
    { <<"j","s","o","n","e","n","c","o","d","e","(">>,
      <<"m","e","r","g","e","(">>,
      <<"t","r","y","(">>,
      <<"l","o","o","k","u","p","(">>,
      <<"a","l","l","t","r","u","e","(">>,
      <<"a","n","y","t","r","u","e","(">>,
      <<"c","i","d","r","s","u","b","n","e","t","(">>,
      <<"c","i","d","r","h","o","s","t","(">>,
      <<"f","l","a","t","t","e","n","(">>,
      <<"k","e","y","s","(">>,
      <<"v","a","l","u","e","s","(">>,
      <<"z","i","p","m","a","p","(">> }

TxtList == <<"l","i","s","t","(">>

TxtObject == <<"o","b","j","e","c","t","(">>

TxtDescription == <<"d","e","s","c","r","i","p","t","i","o","n">>

\* len(line) - len(line.lstrip())
Ind(line) == LeadLen(line)

\* line.strip() == ''
IsBlank(line) == Strip(line) = <<>>

\* line.strip().startswith('#')
IsComment(line) == StartsWith(Strip(line), <<"#">>)

\* '=' in line and not line.strip().startswith('#')
IsParamLine(line) == Has(line, "=") /\ ~IsComment(line)

\* line.split('=', 1)[1].strip()
AfterEqStripped(line) == Strip(AfterEq(line))

\* after_equals and any(after_equals.startswith(p) ...) and ('{' in or '[' in)
IsFunctionValue(after) ==
    /\ after # <<>>
    /\ \E p \in FunctionPatterns : StartsWith(after, p)
    /\ (Has(after, "{") \/ Has(after, "["))

\* '=' in line and the text after the first '=' opens a function call
HasFunctionCall(line) == Has(line, "=") /\ IsFunctionValue(AfterEqStripped(line))

\* rule_003.py:411-432: the nearest earlier line (blank and comment lines
\* skipped) with a smaller indent decides.  k is a 0-based index.
RECURSIVE SearchLower(_, _, _)
SearchLower(bl, k, current_indent) ==
    IF k < 0 THEN FALSE
    ELSE IF IsBlank(bl[k + 1]) \/ IsComment(bl[k + 1])
    THEN SearchLower(bl, k - 1, current_indent)
    ELSE IF Ind(bl[k + 1]) < current_indent THEN HasFunctionCall(bl[k + 1])
    ELSE SearchLower(bl, k - 1, current_indent)

\* rule_003.py:577-595, 876-894, 1243-1261: the first earlier line that opens
\* a function call (found) or has a smaller indent (not found): [found, idx]
RECURSIVE SearchCall(_, _, _)
SearchCall(bl, k, limit_indent) ==
    IF k < 0 THEN [found |-> FALSE, idx |-> -1]
    ELSE IF IsBlank(bl[k + 1]) \/ IsComment(bl[k + 1])
    THEN SearchCall(bl, k - 1, limit_indent)
    ELSE IF HasFunctionCall(bl[k + 1]) THEN [found |-> TRUE, idx |-> k]
    ELSE IF Ind(bl[k + 1]) < limit_indent THEN [found |-> FALSE, idx |-> -1]
    ELSE SearchCall(bl, k - 1, limit_indent)

\* rule_003.py:1150-1173: as SearchCall, but a function call only counts when
\* the parameter is indented deeper than the line of the call
RECURSIVE SearchCallDeeper(_, _, _)
SearchCallDeeper(bl, k, current_indent) ==
    IF k < 0 THEN [found |-> FALSE, idx |-> -1]
    ELSE IF IsBlank(bl[k + 1]) \/ IsComment(bl[k + 1])
    THEN SearchCallDeeper(bl, k - 1, current_indent)
    ELSE IF HasFunctionCall(bl[k + 1]) /\ current_indent > Ind(bl[k + 1])
    THEN [found |-> TRUE, idx |-> k]
    ELSE IF Ind(bl[k + 1]) < current_indent THEN [found |-> FALSE, idx |-> -1]
    ELSE SearchCallDeeper(bl, k - 1, current_indent)

\* rule_003.py:438-452: reversed(current_section) looking for a function call
RECURSIVE SectionHasCall(_, _, _, _)
SectionHasCall(bl, sec, k, current_indent) ==
    IF k < 1 THEN FALSE
    ELSE LET prev_line == bl[sec[k] + 1]
         IN  IF ~IsParamLine(prev_line) THEN SectionHasCall(bl, sec, k - 1, current_indent)
             ELSE IF IsFunctionValue(AfterEqStripped(prev_line)) THEN TRUE
             ELSE IF Ind(prev_line) = current_indent THEN FALSE
             ELSE SectionHasCall(bl, sec, k - 1, current_indent)

\* some parameter line of the section has this indent
HasParamAt(bl, sec, indent) ==
    \E k \in 1..Len(sec) : IsParamLine(bl[sec[k] + 1]) /\ Ind(bl[sec[k] + 1]) = indent

\* The state of the forward pass:
\*   heap       the list objects, each a sequence of line indices
\*   sections   the list 'sections', as positions in heap
\*   stack      the list 'section_stack', as positions in heap
\*   cur        current_section, a position in heap
SplitStart ==
    [heap |-> << <<>> >>, sections |-> <<>>, stack |-> <<>>, cur |-> 1,
     brace_level |-> 0, bracket_level |-> 0,
     in_heredoc |-> FALSE, heredoc_terminator |-> <<>>]

Cur(s) == s.heap[s.cur]

\* current_section = <a new list with these elements>
SetCurNew(s, elems) ==
    [s EXCEPT !.heap = Append(@, elems), !.cur = Len(s.heap) + 1]

\* sections.append(current_section)
PushSection(s) == [s EXCEPT !.sections = Append(@, s.cur)]

\* if current_section: sections.append(current_section); current_section = []
FlushCur(s) == IF Cur(s) # <<>> THEN SetCurNew(PushSection(s), <<>>) ELSE s

\* current_section.append((line, line_idx))
AppendCur(s, line_idx) == [s EXCEPT !.heap[s.cur] = Append(@, line_idx)]

\* section_stack.append(list(current_section)); current_section = []
PushCopy(s) ==
    LET t == [s EXCEPT !.heap = Append(@, Cur(s)), !.stack = Append(@, Len(s.heap) + 1)]
    IN  SetCurNew(t, <<>>)

\* sections.append(current_section); section_stack.append(current_section);
\* current_section = []   (one list object, in both lists)
PushShared(s) ==
    LET t == [s EXCEPT !.sections = Append(@, s.cur), !.stack = Append(@, s.cur)]
    IN  SetCurNew(t, <<>>)

\* current_section = section_stack.pop()
PopStack(s) ==
    [s EXCEPT !.cur = s.stack[Len(s.stack)],
              !.stack = SubSeq(@, 1, Len(@) - 1)]

\* rule_003.py:456-485 (and 492-522, 597-652): split current_section by indent
SplitByIndent(bl, s, current_indent) ==
    LET Differs(ix) == IsParamLine(bl[ix + 1]) /\ Ind(bl[ix + 1]) # current_indent
        different_indent_section == SelectSeq(Cur(s), Differs)
        same_indent_section == SelectSeq(Cur(s), LAMBDA ix : ~Differs(ix))
    IN  IF different_indent_section = <<>> THEN s
        ELSE LET t == [s EXCEPT !.heap = Append(@, different_indent_section),
                                !.sections = Append(@, Len(s.heap) + 1)]
             IN  SetCurNew(t, same_indent_section)

\* rule_003.py:541-555 (and 663-677): the last section with a parameter at
\* this indent is taken out of sections and becomes current_section
RECURSIVE MergeBack(_, _, _, _)
MergeBack(bl, s, sec_idx, current_indent) ==
    IF sec_idx < 1 THEN s
    ELSE IF HasParamAt(bl, s.heap[s.sections[sec_idx]], current_indent)
    THEN [s EXCEPT !.cur = s.sections[sec_idx],
                   !.sections = SubSeq(@, 1, sec_idx - 1) \o SubSeq(@, sec_idx + 1, Len(@))]
    ELSE MergeBack(bl, s, sec_idx - 1, current_indent)

(***************************************************************************)
(* ST.003: _split_into_code_sections, the forward pass line by line        *)
(***************************************************************************)
BracesBalancedOnLine(line) == Count(line, "{") = Count(line, "}") /\ Count(line, "{") > 0

BracketsBalancedOnLine(line) == Count(line, "[") = Count(line, "]") /\ Count(line, "[") > 0

\* rule_003.py:356-368: a level after the net change of one line
LevelAfterNet(level, net) ==
    IF net > 0 THEN level + net
    ELSE IF net < 0 THEN Max(0, level + net)
    ELSE level

\* rule_003.py:394-559: a "param = {" declaration line
PhaseObjectDecl(bl, s, line_idx) ==
    LET line == bl[line_idx + 1]
        stripped_line == Strip(line)
        current_indent == Ind(line)
        is_inside_function_call ==
            \/ SearchLower(bl, line_idx - 1, current_indent)
            \/ SectionHasCall(bl, Cur(s), Len(Cur(s)), current_indent)
        prev_line_was_empty == line_idx > 0 /\ IsBlank(bl[line_idx])
    IN  IF ~(/\ s.brace_level >= 1
             /\ EndsWith(stripped_line, <<"{">>)
             /\ ~BracesBalancedOnLine(line)
             /\ Has(stripped_line, "=")
             /\ AfterEqStripped(stripped_line) = <<"{">>)
        THEN s
        ELSE IF Cur(s) # <<>> THEN SplitByIndent(bl, s, current_indent)
        ELSE IF is_inside_function_call /\ ~prev_line_was_empty
        THEN MergeBack(bl, s, Len(s.sections), current_indent)
        ELSE s

\* rule_003.py:567-679: a "param = [" declaration line
PhaseArrayDecl(bl, s, line_idx) ==
    LET line == bl[line_idx + 1]
        stripped_line == Strip(line)
        current_indent == Ind(line)
        is_inside_function_call == SearchCall(bl, line_idx - 1, current_indent).found
        should_keep_together ==
            /\ current_indent = 2
            /\ line_idx > 0
            /\ Has(Strip(bl[line_idx]), "]")
            /\ HasParamAt(bl, Cur(s), current_indent)
    IN  IF ~(/\ s.bracket_level = 1
             /\ EndsWith(stripped_line, <<"[">>)
             /\ ~BracketsBalancedOnLine(line)
             /\ Has(stripped_line, "=")
             /\ AfterEqStripped(stripped_line) = <<"[">>)
        THEN s
        ELSE IF Cur(s) # <<>>
        THEN IF should_keep_together THEN s ELSE SplitByIndent(bl, s, current_indent)
        ELSE IF is_inside_function_call
        THEN MergeBack(bl, s, Len(s.sections), current_indent)
        ELSE s

\* rule_003.py:687-708: a standalone '{' inside an array
PhaseStandaloneBrace(bl, s, line_idx) ==
    LET line == bl[line_idx + 1]
        stripped_line == Strip(line)
        is_inside_function_call_for_array ==
            /\ line_idx > 0
            /\ IsParamLine(bl[line_idx])
            /\ IsFunctionValue(AfterEqStripped(bl[line_idx]))
    IN  IF /\ s.bracket_level >= 1
           /\ stripped_line = <<"{">>
           /\ ~Has(stripped_line, "=")
           /\ ~BracesBalancedOnLine(line)
           /\ ~is_inside_function_call_for_array
           /\ s.brace_level = 0
        THEN FlushCur(s)
        ELSE s

\* rule_003.py:715-784: a parameter line right after a declaration that opens
\* an object: [s, cont] with cont TRUE where the code says 'continue'
PhaseEnterParams(bl, s, line_idx) ==
    LET line == bl[line_idx + 1]
        stripped_line == Strip(line)
        last_line_content == bl[Cur(s)[Len(Cur(s))] + 1]
        deeper == Ind(line) > Ind(last_line_content)
        Stay == [s |-> s, cont |-> FALSE]
    IN  IF ~(/\ s.brace_level >= 1
             /\ Has(stripped_line, "=")
             /\ ~EndsWith(stripped_line, <<"{">>)
             /\ ~EndsWith(stripped_line, <<"[">>)
             /\ ~BracesBalancedOnLine(line)
             /\ ~BracketsBalancedOnLine(line)
             /\ Cur(s) # <<>>)
        THEN Stay
        ELSE IF Contains(last_line_content, TxtObject) /\ Has(last_line_content, "{")
        THEN IF ~Contains(last_line_content, TxtList)
             THEN IF deeper THEN [s |-> PushShared(s), cont |-> FALSE] ELSE Stay
             ELSE IF s.bracket_level >= 1
             THEN [s |-> PushCopy(AppendCur(s, line_idx)), cont |-> TRUE]
             ELSE Stay
        ELSE IF Has(last_line_content, "=") /\ EndsWith(last_line_content, <<"{">>)
        THEN IF deeper THEN [s |-> PushShared(s), cont |-> FALSE] ELSE Stay
        ELSE Stay

\* any('description' in line for line, _ in section)
HasDescription(bl, sec) ==
    \E k \in 1..Len(sec) : Contains(bl[sec[k] + 1], TxtDescription)

\* rule_003.py:823-828: the indent of the first parameter line of the section
\* that contains 'object(', or -1 for None
DeclarationIndent(bl, sec) ==
    LET Decl(k) == IsParamLine(bl[sec[k] + 1]) /\ Contains(bl[sec[k] + 1], TxtObject)
    IN  IF \E k \in 1..Len(sec) : Decl(k)
        THEN Ind(bl[sec[CHOOSE k \in 1..Len(sec) :
                            Decl(k) /\ \A j \in 1..(k - 1) : ~Decl(j)] + 1])
        ELSE -1

\* rule_003.py:796-856: a closing line while section_stack is not empty
ExitToStacked(bl, s, line_idx) ==
    LET s1 == IF Cur(s) # <<>> THEN PushSection(s) ELSE s
        s2 == AppendCur(PopStack(s1), line_idx)
        next_line == bl[line_idx + 2]
        declaration_indent == DeclarationIndent(bl, Cur(s2))
    IN  IF /\ line_idx + 1 < Len(bl)
           /\ IsParamLine(next_line)
           /\ declaration_indent # -1
           /\ Ind(next_line) < declaration_indent
           /\ s2.stack # <<>>
           /\ ~HasDescription(bl, Cur(s2))
           /\ HasDescription(bl, s2.heap[s2.stack[Len(s2.stack)]])
        THEN AppendCur(PopStack(s2), line_idx)
        ELSE s2

\* rule_003.py:863-935: should_split for a closing line at brace level 0
ShouldSplit(bl, s, line_idx) ==
    LET next_line == bl[line_idx + 2]
        next_indent == Ind(next_line)
        is_inside_function_call == SearchCall(bl, line_idx - 1, next_indent).found
    IN  IF ~(line_idx + 1 < Len(bl) /\ IsParamLine(next_line)) THEN TRUE
        ELSE IF is_inside_function_call /\ Cur(s) = <<>>
        THEN ~\E k \in 1..Len(s.sections) : HasParamAt(bl, s.heap[s.sections[k]], next_indent)
        ELSE ~HasParamAt(bl, Cur(s), next_indent)

\* rule_003.py:791-939: [s, cont]
PhaseExitObject(bl, s, line_idx) ==
    LET line == bl[line_idx + 1]
        stripped_line == Strip(line)
    IN  IF ~(/\ \/ StartsWith(stripped_line, <<"}">>)
                \/ Contains(stripped_line, <<"}", ")">>)
                \/ (EndsWith(stripped_line, <<")">>) /\ Has(stripped_line, "}"))
             /\ ~BracesBalancedOnLine(line)
             /\ ~BracketsBalancedOnLine(line))
        THEN [s |-> s, cont |-> FALSE]
        ELSE IF s.stack # <<>>
        THEN [s |-> ExitToStacked(bl, s, line_idx), cont |-> TRUE]
        ELSE IF s.brace_level = 0 /\ ShouldSplit(bl, s, line_idx)
        THEN [s |-> FlushCur(s), cont |-> FALSE]
        ELSE [s |-> s, cont |-> FALSE]

\* rule_003.py:946-991
PhaseExitArray(bl, s, line_idx, prev_bracket_level) ==
    LET stripped_line == Strip(bl[line_idx + 1])
    IN  IF /\ s.bracket_level = 0
           /\ StartsWith(stripped_line, <<"]">>)
           /\ s.brace_level = 0
           /\ ~(prev_bracket_level > 0 /\ HasParamAt(bl, Cur(s), 2))
        THEN FlushCur(s)
        ELSE s

\* rule_003.py:338-994: a line that is neither blank nor a comment
SplitCodeLine(bl, s0, line_idx) ==
    LET line == bl[line_idx + 1]
        stripped_line == Strip(line)
        prev_bracket_level == s0.bracket_level
        s1 == [s0 EXCEPT
                 !.brace_level = LevelAfterNet(@, Count(line, "{") - Count(line, "}")),
                 !.bracket_level = LevelAfterNet(@, Count(line, "[") - Count(line, "]"))]
        s2 == PhaseObjectDecl(bl, s1, line_idx)
        s3 == PhaseArrayDecl(bl, s2, line_idx)
        s4 == PhaseStandaloneBrace(bl, s3, line_idx)
        e5 == PhaseEnterParams(bl, s4, line_idx)
        e6 == PhaseExitObject(bl, e5.s, line_idx)
        s7 == PhaseExitArray(bl, e6.s, line_idx, prev_bracket_level)
    IN  IF /\ Contains(stripped_line, TxtList)
           /\ Contains(stripped_line, TxtObject)
           /\ EndsWith(stripped_line, <<"{">>)
        THEN PushCopy(AppendCur(s1, line_idx))
        ELSE IF e5.cont THEN e5.s
        ELSE IF e6.cont THEN e6.s
        ELSE AppendCur(s7, line_idx)

\* rule_003.py:303-994: one iteration of the loop over block_lines
SplitLine(bl, s, line_idx) ==
    LET line == bl[line_idx + 1]
        stripped_line == Strip(line)
        ends == s.in_heredoc /\ s.heredoc_terminator # <<>>
                    /\ stripped_line = s.heredoc_terminator
        s1 == IF ends THEN [s EXCEPT !.in_heredoc = FALSE, !.heredoc_terminator = <<>>]
              ELSE s
        heredoc_match == HeredocMatch(line)
        s2 == IF heredoc_match # <<>>
              THEN [s1 EXCEPT !.in_heredoc = TRUE, !.heredoc_terminator = heredoc_match]
              ELSE s1
    IN  IF s1.in_heredoc THEN s1
        ELSE IF stripped_line = <<>> THEN FlushCur(s2)
        ELSE IF StartsWith(stripped_line, <<"#">>) THEN s2
        ELSE SplitCodeLine(bl, s2, line_idx)

\* The forward pass from line_idx on, then 'if current_section: sections.append'
RECURSIVE SplitForward(_, _, _)
SplitForward(bl, s, line_idx) ==
    IF line_idx >= Len(bl)
    THEN IF Cur(s) # <<>> THEN PushSection(s) ELSE s
    ELSE SplitForward(bl, SplitLine(bl, s, line_idx), line_idx + 1)

\* The list 'sections' after the forward pass, each section by value
ForwardSections(bl) ==
    LET s == SplitForward(bl, SplitStart, 0)
    IN  [k \in 1..Len(s.sections) |-> s.heap[s.sections[k]]]

(***************************************************************************)
(* ST.003: _split_into_code_sections, the post-passes (rule_003.py:1003-    *)
(* 1350).  bl is the block_lines argument (the lines of the tuples), store *)
(* is the value of the function attribute _block_lines at the time line    *)
(* 1047 reads it, and blx is the local block_lines afterwards.             *)
(***************************************************************************)
SeqMax(sec) == CHOOSE m \in {sec[k] : k \in 1..Len(sec)} : \A k \in 1..Len(sec) : sec[k] <= m

SeqMin(sec) == CHOOSE m \in {sec[k] : k \in 1..Len(sec)} : \A k \in 1..Len(sec) : sec[k] >= m

RemoveAt(seq, j) == SubSeq(seq, 1, j - 1) \o SubSeq(seq, j + 1, Len(seq))

\* rule_003.py:1061-1065 (and 1316-1320): append what is not yet in merged_sec
RECURSIVE MergeInto(_, _, _)
MergeInto(merged_sec, next_sec, k) ==
    IF k > Len(next_sec) THEN merged_sec
    ELSE IF \E m \in 1..Len(merged_sec) : merged_sec[m] = next_sec[k]
    THEN MergeInto(merged_sec, next_sec, k + 1)
    ELSE MergeInto(Append(merged_sec, next_sec[k]), next_sec, k + 1)

\* rule_003.py:1038-1053: the gap between the two sections is wider than one
\* line (so the stored block_lines are read)
GapRead(current_sec, next_sec) == SeqMin(next_sec) - SeqMax(current_sec) > 1

\* rule_003.py:1049-1053
HasEmptyLineInGap(store, current_sec, next_sec) ==
    \E gap_idx \in (SeqMax(current_sec) + 1)..(SeqMin(next_sec) - 1) :
        gap_idx < Len(store) /\ IsBlank(store[gap_idx + 1])

\* rule_003.py:1087-1092
IsEmptySection(bl, sec) ==
    \A k \in 1..Len(sec) : IsBlank(bl[sec[k] + 1]) \/ IsComment(bl[sec[k] + 1])

\* rule_003.py:1003-1004: the position of the first post-pass, that is its locals
\* sections, i, merged_top_level_sections, merged_sec, j and block_lines
\* (blx), and the place where it stands: at the head of the outer loop, at
\* the head of the inner loop, before line 1047, or past the loops
MergeStart(bl, sections) ==
    [sections |-> sections, i |-> 1, merged |-> <<>>, merged_sec |-> <<>>,
     j |-> 0, blx |-> bl, at |-> "outer"]

\* rule_003.py:1060-1068: merge sections[j] into merged_sec, sections.pop(j)
MergeNext(m) ==
    [m EXCEPT !.merged_sec = MergeInto(@, m.sections[m.j], 1),
              !.sections = RemoveAt(@, m.j),
              !.at = "inner"]

\* rule_003.py:1110-1111: the inner loop has ended
MergeClose(m) ==
    [m EXCEPT !.merged = Append(@, m.merged_sec), !.i = @ + 1, !.at = "outer"]

\* rule_003.py:1023-1111: the inner loop from position j (1-based) on, up to
\* its end or to the next execution of line 1047
RECURSIVE TopLevelInner(_, _)
TopLevelInner(bl, m) ==
    IF m.j > Len(m.sections) THEN MergeClose(m)
    ELSE IF HasParamAt(bl, m.sections[m.j], 2)
    THEN IF GapRead(m.sections[m.i], m.sections[m.j])
         THEN [m EXCEPT !.at = "read"]
         ELSE TopLevelInner(bl, MergeNext(m))
    ELSE IF IsEmptySection(bl, m.sections[m.j]) THEN MergeClose(m)
    ELSE TopLevelInner(bl, [m EXCEPT !.j = @ + 1])

\* rule_003.py:1047-1058: line 1047 reads the function attribute into the
\* local block_lines, then the gap is searched for an empty line
MergeRead(m, store) ==
    IF HasEmptyLineInGap(store, m.sections[m.i], m.sections[m.j])
    THEN MergeClose([m EXCEPT !.blx = store])
    ELSE MergeNext([m EXCEPT !.blx = store])

\* rule_003.py:1003-1120: the loops from position m on, up to their end or to
\* the next execution of line 1047
RECURSIVE MergeTopLevel(_, _)
MergeTopLevel(bl, m) ==
    IF m.at \in {"read", "end"} THEN m
    ELSE IF m.at = "inner" THEN MergeTopLevel(bl, TopLevelInner(bl, m))
    ELSE IF m.i > Len(m.sections) THEN [m EXCEPT !.at = "end"]
    ELSE IF HasParamAt(bl, m.sections[m.i], 2)
    THEN MergeTopLevel(bl, [m EXCEPT !.merged_sec = m.sections[m.i],
                                     !.j = m.i + 1, !.at = "inner"])
    ELSE MergeTopLevel(bl, [m EXCEPT !.merged = Append(@, m.sections[m.i]),
                                     !.i = @ + 1])

\* rule_003.py:1005-1120: one stretch of the first post-pass that nothing can
\* interrupt: the read of line 1047 if the pass stands before it, then the
\* loops up to their end or to the next execution of line 1047
MergeStep(bl, m, store) ==
    MergeTopLevel(bl, IF m.at = "read" THEN MergeRead(m, store) ELSE m)

\* rule_003.py:1005-1120: the first post-pass from position m to its end when
\* every execution of line 1047 reads the same value
RECURSIVE MergeAll(_, _, _)
MergeAll(bl, m, store) ==
    IF m.at = "end" THEN m ELSE MergeAll(bl, MergeStep(bl, m, store), store)

\* param_lines of a section
ParamLines(bl, sec) == SelectSeq(sec, LAMBDA ix : IsParamLine(bl[ix + 1]))

\* rule_003.py:1144 (1237, 1283): block_lines[line_idx] is out of range
IndexFails(bl, blx, sections) ==
    \E k \in 1..Len(sections) : \E m \in 1..Len(sections[k]) :
        IsParamLine(bl[sections[k][m] + 1]) /\ sections[k][m] >= Len(blx)

\* rule_003.py:1186-1194 (1212-1219): the members of the section that are in
\* the group, or are non-parameter lines between its first and last member
GroupSection(bl, current_sec, group) ==
    SelectSeq(current_sec,
        LAMBDA ix : \/ \E m \in 1..Len(group) : group[m] = ix
                    \/ /\ ~IsParamLine(bl[ix + 1])
                       /\ SeqMin(group) <= ix
                       /\ ix <= SeqMax(group))

\* rule_003.py:1201-1206: the keys of function_call_groups in insertion order
RECURSIVE GroupKeys(_, _, _)
GroupKeys(keyed, k, keys) ==
    IF k > Len(keyed) THEN keys
    ELSE IF \E m \in 1..Len(keys) : keys[m] = keyed[k].key
    THEN GroupKeys(keyed, k + 1, keys)
    ELSE GroupKeys(keyed, k + 1, Append(keys, keyed[k].key))

\* rule_003.py:1130-1225: what one section contributes to separated_sections
SeparateSection(bl, blx, current_sec) ==
    LET param_lines == ParamLines(bl, current_sec)
        Call(ix) == SearchCallDeeper(blx, ix - 1, Ind(blx[ix + 1]))
        params_outside_function == SelectSeq(param_lines, LAMBDA ix : ~Call(ix).found)
        params_inside_function == SelectSeq(param_lines, LAMBDA ix : Call(ix).found)
        keyed == [k \in 1..Len(params_inside_function) |->
                    [ix |-> params_inside_function[k],
                     key |-> <<Call(params_inside_function[k]).idx,
                               Ind(blx[params_inside_function[k] + 1])>>]]
        keys == GroupKeys(keyed, 1, <<>>)
        GroupOf(key) ==
            LET members == SelectSeq(keyed, LAMBDA e : e.key = key)
            IN  [k \in 1..Len(members) |-> members[k].ix]
        group_secs == [k \in 1..Len(keys) |-> GroupSection(bl, current_sec, GroupOf(keys[k]))]
    IN  IF param_lines = <<>> THEN <<current_sec>>
        ELSE IF params_inside_function = <<>> THEN <<current_sec>>
        ELSE IF params_outside_function = <<>> THEN group_secs
        ELSE <<GroupSection(bl, current_sec, params_outside_function)>> \o group_secs

\* Step 1 over all sections
RECURSIVE SeparateAll(_, _, _, _, _)
SeparateAll(bl, blx, sections, k, separated_sections) ==
    IF k > Len(sections) THEN separated_sections
    ELSE SeparateAll(bl, blx, sections, k + 1,
                     separated_sections \o SeparateSection(bl, blx, sections[k]))

\* rule_003.py:1286-1307: an earlier line opens the same function call
RECURSIVE SearchSameCall(_, _, _, _)
SearchSameCall(blx, k, next_indent, function_call_line_content) ==
    IF k < 0 THEN FALSE
    ELSE IF IsBlank(blx[k + 1]) \/ IsComment(blx[k + 1])
    THEN SearchSameCall(blx, k - 1, next_indent, function_call_line_content)
    ELSE IF HasFunctionCall(blx[k + 1]) /\ Strip(blx[k + 1]) = function_call_line_content
    THEN TRUE
    ELSE IF Ind(blx[k + 1]) < next_indent THEN FALSE
    ELSE SearchSameCall(blx, k - 1, next_indent, function_call_line_content)

\* rule_003.py:1282-1312: the loop over next_param_lines from position k on
RECURSIVE SameCallParam(_, _, _, _, _)
SameCallParam(blx, next_param_lines, k, current_indent, function_call_line_content) ==
    IF k > Len(next_param_lines) THEN FALSE
    ELSE LET next_line_idx == next_param_lines[k]
             next_indent == Ind(blx[next_line_idx + 1])
         IN  IF next_indent = current_indent
             THEN \/ SearchSameCall(blx, next_line_idx - 1, next_indent,
                                    function_call_line_content)
                  \/ SameCallParam(blx, next_param_lines, k + 1, current_indent,
                                   function_call_line_content)
             ELSE IF next_indent < current_indent THEN FALSE
             ELSE SameCallParam(blx, next_param_lines, k + 1, current_indent,
                                function_call_line_content)

\* rule_003.py:1271-1336: the inner loop from position j on: [sections, merged]
RECURSIVE CallInner(_, _, _, _, _, _, _)
CallInner(bl, blx, separated_sections, merged_sec, j, current_indent, content) ==
    IF j > Len(separated_sections)
    THEN [sections |-> separated_sections, merged |-> merged_sec]
    ELSE LET next_sec == separated_sections[j]
             next_param_lines == ParamLines(bl, next_sec)
         IN  IF next_param_lines = <<>>
             THEN CallInner(bl, blx, separated_sections, merged_sec, j + 1,
                            current_indent, content)
             ELSE IF SameCallParam(blx, next_param_lines, 1, current_indent, content)
             THEN CallInner(bl, blx, RemoveAt(separated_sections, j),
                            MergeInto(merged_sec, next_sec, 1), j,
                            current_indent, content)
             ELSE IF Ind(blx[next_param_lines[1] + 1]) < current_indent
             THEN [sections |-> separated_sections, merged |-> merged_sec]
             ELSE CallInner(bl, blx, separated_sections, merged_sec, j + 1,
                            current_indent, content)

\* rule_003.py:1228-1350: Step 2
RECURSIVE MergeCallSections(_, _, _, _, _)
MergeCallSections(bl, blx, separated_sections, i, merged_sections) ==
    IF i > Len(separated_sections) THEN merged_sections
    ELSE LET current_sec == separated_sections[i]
             param_lines == ParamLines(bl, current_sec)
             line_idx == param_lines[1]
             current_indent == Ind(blx[line_idx + 1])
             call == SearchCall(blx, line_idx - 1, current_indent)
             m == CallInner(bl, blx, separated_sections, current_sec, i + 1,
                            current_indent, Strip(blx[call.idx + 1]))
         IN  IF Len(param_lines) = 1 /\ call.found
             THEN MergeCallSections(bl, blx, m.sections, i + 1,
                                    Append(merged_sections, m.merged))
             ELSE MergeCallSections(bl, blx, separated_sections, i + 1,
                                    Append(merged_sections, current_sec))

\* rule_003.py:1120-1350 on the sections of the first post-pass, with the
\* local block_lines it has left: [crashed, sections]; crashed stands for the
\* IndexError of line 1144
PostFinish(bl, m) ==
    IF IndexFails(bl, m.blx, m.merged)
    THEN [crashed |-> TRUE, sections |-> <<>>]
    ELSE [crashed |-> FALSE,
          sections |-> MergeCallSections(bl, m.blx,
                           SeparateAll(bl, m.blx, m.merged, 1, <<>>), 1, <<>>)]

\* rule_003.py:1003-1350 on the sections of the forward pass when every
\* execution of line 1047 reads the value store
PostProcess(bl, store, sections) ==
    PostFinish(bl, MergeAll(bl, MergeStart(bl, sections), store))

\* _split_into_code_sections(block_lines) when nothing else runs in between
SplitIntoCodeSections(bl) == PostProcess(bl, bl, ForwardSections(bl))

(***************************************************************************)
(* ST.003: the checks on one section of a block (rule_003.py:1353-1780)    *)
(***************************************************************************)
MetaParameters ==
    { <<"c","o","u","n","t">>,
      <<"f","o","r","_","e","a","c","h">>,
      <<"p","r","o","v","i","d","e","r">>,
      <<"d","e","p","e","n","d","s","_","o","n">>,
      <<"l","i","f","e","c","y","c","l","e">> }

TxtST005 == <<"S","T",".","0","0","5">>

TxtRequiredProviders ==
    <<"r","e","q","u","i","r","e","d","_","p","r","o","v","i","d","e","r","s">>

SectionSkipKeywords ==
    { <<"d","a","t","a">>, <<"r","e","s","o","u","r","c","e">>,
      <<"v","a","r","i","a","b","l","e">>, <<"o","u","t","p","u","t">>,
      <<"l","o","c","a","l","s">>, <<"m","o","d","u","l","e">> }

\* re.match(r'^\s*(data|resource|variable|output|locals|module)\s+', line)
IsBlockDeclaration(line) ==
    LET Declares(t) ==
            \E kw \in SectionSkipKeywords :
                StartsWith(t, kw) /\ Len(t) > Len(kw) /\ t[Len(kw) + 1] \in WS
    IN  Declares(LStrip(line))

\* re.match(r'^\s*[a-zA-Z_][a-zA-Z0-9_]*\s*=\s*\{', line)
IsNameEqualsBrace(line) ==
    LET Brace(v) == v # <<>> /\ v[1] = "{"
        Equals(u) == u # <<>> /\ u[1] = "=" /\ Brace(LStrip(From(u, 1)))
        Name(t) == t # <<>> /\ t[1] \in IdStart /\ Equals(LStrip(From(t, LeadIn(t, IdChar))))
    IN  Name(LStrip(line))

\* line_stripped.startswith('(') and ('==' in line or '!=' in line)
IsExpressionContent(line) ==
    /\ StartsWith(Strip(line), <<"(">>)
    /\ (Contains(line, <<"=", "=">>) \/ Contains(line, <<"!", "=">>))

\* re.match(r'^\s*(["\']?)([^"\'=\s]+)\1\s*$', before_equals): the name, or
\* <<>> when there is no match
ParamNameMatch(before_equals) ==
    LET IsNameChar(c) == c \notin {"\"", "'", "=", " ", "\t"}
        Run(body) ==
            IF \A i \in 1..Len(body) : IsNameChar(body[i]) THEN Len(body)
            ELSE (CHOOSE i \in 1..Len(body) :
                     ~IsNameChar(body[i]) /\ \A j \in 1..(i - 1) : IsNameChar(body[j])) - 1
        Ends(t, quoted, body, n, rest) ==
            IF /\ n > 0
               /\ (quoted => (rest # <<>> /\ rest[1] = t[1]))
               /\ \A i \in (IF quoted THEN 2 ELSE 1)..Len(rest) : rest[i] \in WS
            THEN Slice(body, 0, n)
            ELSE <<>>
        Name(t, quoted, body, n) == Ends(t, quoted, body, n, From(body, n))
        Body(t, quoted, body) == Name(t, quoted, body, Run(body))
        Quote(t, quoted) == Body(t, quoted, IF quoted THEN From(t, 1) ELSE t)
        Match(t) == Quote(t, t # <<>> /\ t[1] \in {"\"", "'"})
    IN  Match(LStrip(before_equals))

\* _has_st005_issue
HasST005Issue(line, relative_line_idx, block_lines) ==
    \/ Ind(line) % 2 # 0
    \/ /\ Ind(line) = 4
       /\ block_lines # <<>>
       /\ relative_line_idx > 0
       /\ Contains(block_lines[relative_line_idx], TxtST005)

\* _should_skip_alignment_check
ShouldSkipAlignmentCheck(line, param_name, relative_line_idx, block_lines) ==
    \/ Has(line, "\t")
    \/ HasST005Issue(line, relative_line_idx, block_lines)
    \/ param_name \in MetaParameters

\* the spacing check if it numbered lines within the block and not in the file
CheckEqualsAfterSpacingRelative(line, relative_line_idx, block_type, block_start_line) ==
    LET Spacing(actual_line_num, after_equals) ==
            IF ~Has(line, "=") THEN <<>>
            ELSE IF ~StartsWith(after_equals, <<" ">>)
            THEN <<Diag(actual_line_num, "after_none", block_type, 0, 0)>>
            ELSE IF StartsWith(after_equals, <<" ", " ">>)
            THEN <<Diag(actual_line_num, "after_multi", block_type, 0, 0)>>
            ELSE <<>>
    IN  Spacing(relative_line_idx + 1, AfterEq(line))

\* _check_equals_after_spacing (and _check_parameter_spacing)
CheckEqualsAfterSpacing(line, relative_line_idx, block_type, block_start_line) ==
    LET Spacing(actual_line_num, after_equals) ==
            IF ~Has(line, "=") THEN <<>>
            ELSE IF ~StartsWith(after_equals, <<" ">>)
            THEN <<Diag(actual_line_num, "after_none", block_type, 0, 0)>>
            ELSE IF StartsWith(after_equals, <<" ", " ">>)
            THEN <<Diag(actual_line_num, "after_multi", block_type, 0, 0)>>
            ELSE <<>>
    IN  Spacing(block_start_line + relative_line_idx + 1, AfterEq(line))

\* rule_003.py:1624-1650: param_data of a group given as line indices; the
\* lines of a group are the right-stripped block lines
GroupLine(block_lines, ix) == RStrip(block_lines[ix + 1])

ParamData(block_lines, group) ==
    LET Entry(ix, line, equals_pos, name) ==
            [name |-> name, line |-> line, idx |-> ix, equals_pos |-> equals_pos,
             keep |-> /\ Has(line, "=")
                      /\ ~StartsWith(Strip(Slice(line, 0, equals_pos)), <<"[">>)
                      /\ ~(/\ Strip(Slice(line, 0, equals_pos)) = <<>>
                           /\ StartsWith(Strip(line), <<"[">>))
                      /\ ~IsExpressionContent(line)
                      /\ name # <<>>]
        At(ix, line, equals_pos) ==
            Entry(ix, line, equals_pos, ParamNameMatch(Slice(line, 0, equals_pos)))
        Of(ix, line) == At(ix, line, Find(line, "="))
        Kept(entries) ==
            [k \in 1..Len(entries) |->
                [name |-> entries[k].name, line |-> entries[k].line,
                 idx |-> entries[k].idx, equals_pos |-> entries[k].equals_pos]]
    IN  Kept(SelectSeq([k \in 1..Len(group) |-> Of(group[k], GroupLine(block_lines, group[k]))],
                       LAMBDA e : e.keep))

\* the expected position if the standard space before '=' were not counted
ExpectedEqualsLocationNoSpace(param_data, indent_level) ==
    LET longest_param_name_length ==
            CHOOSE m \in {Len(param_data[k].name) : k \in 1..Len(param_data)} :
                \A k \in 1..Len(param_data) : Len(param_data[k].name) <= m
        has_quoted_params ==
            \E k \in 1..Len(param_data) :
                StartsWith(Strip(Slice(param_data[k].line, 0, param_data[k].equals_pos)),
                           <<"\"">>)
    IN  indent_level * 2 + longest_param_name_length
            + (IF has_quoted_params THEN 2 ELSE 0)

\* rule_003.py:1680-1739: the expected position of '=' of a group of two or
\* more (block_type is never "tfvars" on this path)
ExpectedEqualsLocation(param_data, indent_level) ==
    LET longest_param_name_length ==
            CHOOSE m \in {Len(param_data[k].name) : k \in 1..Len(param_data)} :
                \A k \in 1..Len(param_data) : Len(param_data[k].name) <= m
        has_quoted_params ==
            \E k \in 1..Len(param_data) :
                StartsWith(Strip(Slice(param_data[k].line, 0, param_data[k].equals_pos)),
                           <<"\"">>)
    IN  indent_level * 2 + longest_param_name_length
            + (IF has_quoted_params THEN 2 ELSE 0) + 1

\* _check_group_alignment
CheckGroupAlignment(group, indent_level, block_type, block_start_line, block_lines) ==
    LET Skips(p) == ShouldSkipAlignmentCheck(p.line, p.name, p.idx, block_lines)
        ErrorOf(p, expected_equals_location) ==
            IF p.equals_pos = expected_equals_location \/ Skips(p) THEN <<>>
            ELSE IF p.equals_pos < expected_equals_location
            THEN <<Diag(block_start_line + p.idx + 1, "not_aligned_expected", block_type,
                        expected_equals_location - indent_level * 2 - Len(p.name),
                        expected_equals_location + 1)>>
            ELSE <<Diag(block_start_line + p.idx + 1, "not_aligned_toomany", block_type, 0,
                        expected_equals_location + 1)>>
        Several(param_data, expected_equals_location) ==
            Flatten([k \in 1..Len(param_data) |->
                        ErrorOf(param_data[k], expected_equals_location)])
        Single(p, before_equals) ==
            IF Skips(p) \/ Len(before_equals) - Len(RStrip(before_equals)) = 1 THEN <<>>
            ELSE <<Diag(block_start_line + p.idx + 1, "single_before", block_type, 0, 0)>>
        Check(param_data) ==
            IF Len(param_data) < 1 THEN <<>>
            ELSE IF Len(param_data) = 1
            THEN Single(param_data[1], Slice(param_data[1].line, 0, param_data[1].equals_pos))
            ELSE Several(param_data, ExpectedEqualsLocation(param_data, indent_level))
    IN  Check(ParamData(block_lines, group))

\* rule_003.py:1428-1467: parameter_lines of a section, as line indices
RECURSIVE SectionParameterLines(_, _, _, _, _, _)
SectionParameterLines(block_lines, section, k, in_heredoc, heredoc_terminator, acc) ==
    LET Takes(line, line_stripped) ==
            /\ Has(line, "=")
            /\ ~StartsWith(line_stripped, <<"#">>)
            /\ ~IsBlockDeclaration(line)
            /\ ~(/\ IsNameEqualsBrace(line)
                 /\ \E m \in 1..Len(section) :
                        Contains(block_lines[section[m] + 1], TxtRequiredProviders))
            /\ ~IsExpressionContent(line)
        Outside(line, line_stripped, term1, heredoc_match) ==
            SectionParameterLines(block_lines, section, k + 1, heredoc_match # <<>>,
                IF heredoc_match # <<>> THEN heredoc_match ELSE term1,
                IF Takes(line, line_stripped) THEN Append(acc, section[k]) ELSE acc)
        Line(line, line_stripped, ends) ==
            IF in_heredoc /\ ~ends
            THEN SectionParameterLines(block_lines, section, k + 1, TRUE,
                                       heredoc_terminator, acc)
            ELSE Outside(line, line_stripped,
                         IF ends THEN <<>> ELSE heredoc_terminator, HeredocMatch(line))
        Stripped(line, line_stripped) ==
            Line(line, line_stripped,
                 in_heredoc /\ heredoc_terminator # <<>> /\ line_stripped = heredoc_terminator)
        At(line) == Stripped(line, Strip(line))
    IN  IF k > Len(section) THEN acc
        ELSE At(GroupLine(block_lines, section[k]))

\* the indent level if the parameter lines of a section were not told apart
\* by their indentation
IndentLevelOfNone(line) == 0

\* rule_003.py:1478-1480: indent_level of a parameter line
IndentLevelOf(line) == LeadLen(ExpandTabs(line)) \div 2

\* the keys of indent_groups in insertion order
RECURSIVE IndentKeys(_, _, _, _)
IndentKeys(block_lines, parameter_lines, k, keys) ==
    IF k > Len(parameter_lines) THEN keys
    ELSE LET lv == IndentLevelOf(GroupLine(block_lines, parameter_lines[k]))
         IN  IF \E m \in 1..Len(keys) : keys[m] = lv
             THEN IndentKeys(block_lines, parameter_lines, k + 1, keys)
             ELSE IndentKeys(block_lines, parameter_lines, k + 1, Append(keys, lv))

\* sorted(group_lines, key=lambda x: x[1])
RECURSIVE SortedByIndex(_)
SortedByIndex(seq) ==
    IF seq = <<>> THEN <<>>
    ELSE LET m == SeqMin(seq)
             first == CHOOSE k \in 1..Len(seq) : seq[k] = m /\ \A j \in 1..(k - 1) : seq[j] # m
         IN  <<m>> \o SortedByIndex(RemoveAt(seq, first))

\* rule_003.py:1501-1504
HasEmptyLineBetween(block_lines, prev_line_idx, relative_line_idx) ==
    \E check_idx \in (prev_line_idx + 1)..(relative_line_idx - 1) :
        check_idx < Len(block_lines) /\ IsBlank(block_lines[check_idx + 1])

\* rule_003.py:1493-1519: sub_groups of a sorted group
RECURSIVE SubGroups(_, _, _, _, _)
SubGroups(block_lines, sorted, k, current_sub_group, sub_groups) ==
    IF k > Len(sorted)
    THEN IF current_sub_group # <<>> THEN Append(sub_groups, current_sub_group)
         ELSE sub_groups
    ELSE IF /\ k > 1
            /\ block_lines # <<>>
            /\ HasEmptyLineBetween(block_lines, sorted[k - 1], sorted[k])
    THEN SubGroups(block_lines, sorted, k + 1, <<sorted[k]>>,
                   IF current_sub_group # <<>> THEN Append(sub_groups, current_sub_group)
                   ELSE sub_groups)
    ELSE SubGroups(block_lines, sorted, k + 1, Append(current_sub_group, sorted[k]),
                   sub_groups)

\* rule_003.py:1522-1529: the errors of one sub-group
SubGroupErrors(sub_group, indent_level, block_type, block_start_line, block_lines) ==
    CheckGroupAlignment(sub_group, indent_level, block_type, block_start_line, block_lines)
        \o Flatten([k \in 1..Len(sub_group) |->
               CheckEqualsAfterSpacing(GroupLine(block_lines, sub_group[k]), sub_group[k],
                                       block_type, block_start_line)])

\* rule_003.py:1470-1519: the sub-groups of a section in the order they are
\* checked, each with the indent level it belongs to
SectionSubGroups(section, block_lines) ==
    With(SectionParameterLines(block_lines, section, 1, FALSE, <<>>, <<>>),
         LAMBDA parameter_lines :
    With(IndentKeys(block_lines, parameter_lines, 1, <<>>), LAMBDA keys :
    Flatten([i \in 1..Len(keys) |->
        With(SubGroups(block_lines,
                 SortedByIndex(SelectSeq(parameter_lines,
                     LAMBDA ix : IndentLevelOf(GroupLine(block_lines, ix)) = keys[i])),
                 1, <<>>, <<>>),
             LAMBDA sub_groups :
                 [k \in 1..Len(sub_groups) |->
                     [indent_level |-> keys[i], sub_group |-> sub_groups[k]]])])))

\* _check_parameter_alignment_in_section.  The loop of lines 1380-1421 only
\* reads and is left out.
CheckParameterAlignmentInSection(section, block_type, block_start_line, block_lines) ==
    With(SectionSubGroups(section, block_lines), LAMBDA groups :
        Flatten([k \in 1..Len(groups) |->
                    SubGroupErrors(groups[k].sub_group, groups[k].indent_level, block_type,
                                   block_start_line, block_lines)]))

\* rule_003.py:118-125 for one block: the errors of all its sections
RECURSIVE SectionsErrors(_, _, _, _, _)
SectionsErrors(sections, k, block_type, block_start_line, block_lines) ==
    IF k > Len(sections) THEN <<>>
    ELSE CheckParameterAlignmentInSection(sections[k], block_type, block_start_line,
                                          block_lines)
         \o SectionsErrors(sections, k + 1, block_type, block_start_line, block_lines)

\* the errors left in the order in which the sections produced them
SortByLineOmitted(errors) == errors

\* all_errors.sort(key=lambda x: x[0]): a stable sort by line number
RECURSIVE SortByLine(_)
SortByLine(errors) ==
    IF errors = <<>> THEN <<>>
    ELSE LET first == CHOOSE k \in 1..Len(errors) :
                          /\ \A j \in 1..Len(errors) : errors[k].line <= errors[j].line
                          /\ \A j \in 1..(k - 1) : errors[j].line # errors[k].line
         IN  <<errors[first]>> \o SortByLine(RemoveAt(errors, first))

\* rule_003.py:131-137: the first of each (line, message) is kept
RECURSIVE Deduplicate(_, _, _)
Deduplicate(errors, k, unique_errors) ==
    IF k > Len(errors) THEN unique_errors
    ELSE IF \E m \in 1..Len(unique_errors) : unique_errors[m] = errors[k]
    THEN Deduplicate(errors, k + 1, unique_errors)
    ELSE Deduplicate(errors, k + 1, Append(unique_errors, errors[k]))

(***************************************************************************)
(* ST.003 on a .tfvars file: _check_tfvars_parameter_alignment             *)
(* (rule_003.py:2001-2592) and its helpers.  A section is a list of        *)
(* (line_num, line) tuples with line = lines[line_num - 1]; it is kept as  *)
(* the sequence of its 1-based line numbers.                               *)
(***************************************************************************)
TxtTfvars == <<"t","f","v","a","r","s">>

ComparisonOps == { <<"=","=">>, <<"!","=">>, <<">","=">>, <<"<","=">> }

Boundaries == { <<"{">>, <<"}">>, <<"[">>, <<"]">> }

\* _has_blank_line_between(lines, start_line_idx, end_line_idx)
HasBlankLineBetween(lines, start_line_idx, end_line_idx) ==
    \E i \in (start_line_idx + 1)..(end_line_idx - 1) :
        i < Len(lines) /\ IsBlank(lines[i + 1])

\* _is_equals_in_string_value
IsEqualsInStringValue(line) ==
    LET line_stripped == Strip(line)
        after_equals == Strip(AfterEq(line))
        before_equals == Strip(Slice(line, 0, Find(line, "=")))
        Quoted(text, q) ==
            \E op \in ComparisonOps :
                Contains(text, <<q>> \o op) \/ Contains(text, op \o <<q>>)
    IN  /\ Has(line, "=")
        /\ \/ StartsWith(line_stripped, <<"\"">>) /\ Quoted(line, "\"")
           \/ StartsWith(line_stripped, <<"'">>) /\ Quoted(line, "'")
           \/ /\ StartsWith(after_equals, <<"\"">>) /\ Quoted(after_equals, "\"")
              /\ before_equals = <<>>
           \/ /\ StartsWith(after_equals, <<"'">>) /\ Quoted(after_equals, "'")
              /\ before_equals = <<>>

\* rule_003.py:2022-2053: assignment_lines, as 1-based line numbers
RECURSIVE TfAssignmentLines(_, _, _, _, _)
TfAssignmentLines(lines, i, in_heredoc, heredoc_terminator, acc) ==
    IF i > Len(lines) THEN acc
    ELSE LET line == lines[i]
             stripped == Strip(line)
             ends == in_heredoc /\ heredoc_terminator # <<>>
                         /\ stripped = heredoc_terminator
             in1 == in_heredoc /\ ~ends
             term1 == IF ends THEN <<>> ELSE heredoc_terminator
             heredoc_match == HeredocMatch(line)
             in2 == heredoc_match # <<>>
             term2 == IF in2 THEN heredoc_match ELSE term1
             takes == \/ (stripped # <<>> /\ Has(stripped, "="))
                      \/ RStripComma(stripped) \in Boundaries
         IN  IF in1 THEN TfAssignmentLines(lines, i + 1, in1, term1, acc)
             ELSE TfAssignmentLines(lines, i + 1, in2, term2,
                                    IF takes THEN Append(acc, i) ELSE acc)

\* rule_003.py:2084-2092: the two levels after the characters of a line, one
\* character at a time: [brace_level, bracket_level]
RECURSIVE TfCharLevels(_, _, _, _)
TfCharLevels(text, k, brace_level, bracket_level) ==
    IF k > Len(text) THEN [brace_level |-> brace_level, bracket_level |-> bracket_level]
    ELSE IF text[k] = "{" THEN TfCharLevels(text, k + 1, brace_level + 1, bracket_level)
    ELSE IF text[k] = "}"
    THEN TfCharLevels(text, k + 1, Max(0, brace_level - 1), bracket_level)
    ELSE IF text[k] = "[" THEN TfCharLevels(text, k + 1, brace_level, bracket_level + 1)
    ELSE IF text[k] = "]"
    THEN TfCharLevels(text, k + 1, brace_level, Max(0, bracket_level - 1))
    ELSE TfCharLevels(text, k + 1, brace_level, bracket_level)

\* '=' in line and the line starts at column 0
IsTopLevelParam(line) == Has(line, "=") /\ Ind(line) = 0

\* _section_has_top_level_param(sec)
SectionHasTopLevelParam(lines, sec) ==
    \E k \in 1..Len(sec) : IsTopLevelParam(lines[sec[k]])

\* the last member of the section that satisfies Test, or 0 for None
LastWhere(sec, Test(_)) ==
    IF \E k \in 1..Len(sec) : Test(sec[k])
    THEN sec[CHOOSE k \in 1..Len(sec) :
                 Test(sec[k]) /\ \A j \in (k + 1)..Len(sec) : ~Test(sec[j])]
    ELSE 0

\* the first member of the section that satisfies Test, or 0 for None
FirstWhere(sec, Test(_)) ==
    IF \E k \in 1..Len(sec) : Test(sec[k])
    THEN sec[CHOOSE k \in 1..Len(sec) :
                 Test(sec[k]) /\ \A j \in 1..(k - 1) : ~Test(sec[j])]
    ELSE 0

\* The state of the grouping loop
TfStart ==
    [sections |-> <<>>, cur |-> <<>>, brace_level |-> 0, bracket_level |-> 0,
     top_level_indent |-> 0]

\* sections.append(current_section); current_section = [(line_num, line)]
TfSplit(s, line_num) ==
    [s EXCEPT !.sections = Append(@, s.cur), !.cur = <<line_num>>]

\* if current_section: sections.append(current_section)
\* current_section = [(line_num, line)]
TfSplitIfAny(s, line_num) ==
    [s EXCEPT !.sections = IF s.cur # <<>> THEN Append(@, s.cur) ELSE @,
              !.cur = <<line_num>>]

\* current_section.append((line_num, line))
TfAppend(s, line_num) == [s EXCEPT !.cur = Append(@, line_num)]

\* sections.pop(); prev_section.extend(current_section); then these line
\* numbers are appended and the result is current_section
TfMergeLast(s, more) ==
    [s EXCEPT !.cur = s.sections[Len(s.sections)] \o s.cur \o more,
              !.sections = SubSeq(@, 1, Len(@) - 1)]

\* rule_003.py:2374-2389: the previous top-level parameter of current_section,
\* or the declaration of the array a top-level ']' closes; 0 for None
RECURSIVE TfPrevTopLevel(_, _, _)
TfPrevTopLevel(lines, cur, k) ==
    IF k < 1 THEN 0
    ELSE IF IsTopLevelParam(lines[cur[k]]) THEN cur[k]
    ELSE LET prev_l == lines[cur[k]]
             decl == LastWhere(cur, LAMBDA ln :
                         /\ IsTopLevelParam(lines[ln])
                         /\ StartsWith(Strip(AfterEq(lines[ln])), <<"[">>))
         IN  IF RStripComma(Strip(prev_l)) = <<"]">> /\ Ind(prev_l) = 0 /\ decl # 0
             THEN decl
             ELSE TfPrevTopLevel(lines, cur, k - 1)

\* rule_003.py:2211-2420: regular grouping of a line that is not a boundary
\* marker; prev_brace_level and prev_bracket_level are the levels before it
TfRegularGrouping(lines, s, line_num, prev_brace_level, prev_bracket_level) ==
    LET top_before == prev_brace_level = 0 /\ prev_bracket_level = 0
        LastTop(sec) == LastWhere(sec, LAMBDA ln : IsTopLevelParam(lines[ln]))
        First(a, b, c) == IF a # 0 THEN a ELSE IF b # 0 THEN b ELSE c
        Gap(num) == HasBlankLineBetween(lines, num - 1, line_num - 1)
        TopPrevGap(top_prev) == top_prev # 0 /\ Gap(top_prev)
        Group(line_indent, is_top_level, is_object_param, cur_has_top, prev_section) ==
            IF ~(is_top_level \/ is_object_param)
            THEN IF Gap(s.cur[Len(s.cur)])
                 THEN TfSplit(s, line_num)
                 ELSE TfAppend(s, line_num)
            ELSE IF /\ top_before
                    /\ Gap(First(
                           LastWhere(s.cur, LAMBDA ln :
                               Has(lines[ln], "=") /\ (is_top_level => Ind(lines[ln]) = 0)),
                           IF is_top_level /\ s.sections # <<>>
                           THEN LastTop(prev_section) ELSE 0,
                           s.cur[Len(s.cur)]))
            THEN TfSplit(s, line_num)
            ELSE IF is_top_level /\ ~cur_has_top /\ s.sections # <<>>
            THEN IF /\ prev_section # <<>>
                    /\ SectionHasTopLevelParam(lines, prev_section)
                    /\ ~Gap(LastTop(prev_section))
                 THEN TfMergeLast(s, <<line_num>>)
                 ELSE TfSplitIfAny(s, line_num)
            ELSE IF is_top_level /\ cur_has_top
            THEN IF /\ TopPrevGap(TfPrevTopLevel(lines, s.cur, Len(s.cur)))
                    /\ top_before
                 THEN TfSplit(s, line_num)
                 ELSE TfAppend(s, line_num)
            ELSE IF is_object_param /\ cur_has_top /\ ~is_top_level
            THEN TfSplit(s, line_num)
            ELSE TfAppend(s, line_num)
        Line(stripped_line, line_indent) ==
            IF s.cur = <<>>
            THEN [s EXCEPT !.top_level_indent = line_indent, !.cur = <<line_num>>]
            ELSE Group(line_indent,
                       /\ line_indent = s.top_level_indent
                       /\ Has(stripped_line, "=")
                       /\ (top_before \/ line_indent = 0),
                       /\ Has(stripped_line, "=")
                       /\ prev_brace_level >= 1
                       /\ ~StartsWith(stripped_line, <<"#">>),
                       SectionHasTopLevelParam(lines, s.cur),
                       IF s.sections # <<>> THEN s.sections[Len(s.sections)] ELSE <<>>)
    IN  Line(Strip(lines[line_num]), Ind(lines[line_num]))

\* rule_003.py:2073-2420: one iteration of the grouping loop
TfGroupLine(lines, s0, line_num) ==
    LET Route(stripped_line, s1, s3, is_boundary_marker) ==
            IF /\ EndsWith(stripped_line, <<"[">>)
               /\ s1.bracket_level = 1
               /\ Has(stripped_line, "=")
               /\ AfterEqStripped(stripped_line) = <<"[">>
            THEN TfAppend(s1, line_num)
            ELSE IF is_boundary_marker
            THEN IF s3.cur # <<>> THEN TfAppend(s3, line_num)
                 ELSE IF s3.sections # <<>>
                 THEN [s3 EXCEPT !.sections[Len(s3.sections)] = Append(@, line_num)]
                 ELSE [s3 EXCEPT !.cur = <<line_num>>]
            ELSE TfRegularGrouping(lines, s3, line_num, s0.brace_level, s0.bracket_level)
        \* 2164-2189: a top-level array has just been closed
        ArrayClosed(stripped_line, stripped_for_boundary, s1, s2) ==
            Route(stripped_line, s1,
                  IF /\ s2.bracket_level = 0
                     /\ s0.bracket_level > 0
                     /\ s0.brace_level = 0
                     /\ s2.sections # <<>>
                     /\ s2.sections[Len(s2.sections)] # <<>>
                     /\ SectionHasTopLevelParam(lines, s2.sections[Len(s2.sections)])
                  THEN TfMergeLast(s2, <<>>)
                  ELSE s2,
                  stripped_for_boundary \in Boundaries /\ ~Has(stripped_line, "="))
        \* 2153-2157: a standalone '{' inside an array
        Standalone(stripped_line, stripped_for_boundary, s1) ==
            ArrayClosed(stripped_line, stripped_for_boundary, s1,
                  IF /\ s1.bracket_level >= 1
                     /\ stripped_for_boundary = <<"{">>
                     /\ ~Has(stripped_line, "=")
                     /\ s1.cur # <<>>
                     /\ ~SectionHasTopLevelParam(lines, s1.cur)
                  THEN [s1 EXCEPT !.sections = Append(@, s1.cur), !.cur = <<>>]
                  ELSE s1)
        Levels(stripped_line, lv) ==
            Standalone(stripped_line, RStripComma(stripped_line),
                       [s0 EXCEPT !.brace_level = lv.brace_level,
                                  !.bracket_level = lv.bracket_level])
        Stripped(stripped_line) ==
            Levels(stripped_line,
                   TfCharLevels(stripped_line, 1, s0.brace_level, s0.bracket_level))
    IN  Stripped(Strip(lines[line_num]))

\* rule_003.py:2432-2482: the final merge pass
RECURSIVE TfFinalMerge(_, _, _, _)
TfFinalMerge(lines, sections, i, merged_sections) ==
    IF i > Len(sections) THEN merged_sections
    ELSE IF i = 1 THEN TfFinalMerge(lines, sections, 2, <<sections[1]>>)
    ELSE LET section == sections[i]
             prev_section == merged_sections[Len(merged_sections)]
             last_top_level_line_num ==
                 LastWhere(prev_section, LAMBDA ln : IsTopLevelParam(lines[ln]))
             after_equals == Strip(AfterEq(lines[last_top_level_line_num]))
             is_array_or_object_decl ==
                 StartsWith(after_equals, <<"[">>) \/ StartsWith(after_equals, <<"{">>)
             first_top_level_line_num ==
                 FirstWhere(section, LAMBDA ln : IsTopLevelParam(lines[ln]))
         IN  IF /\ prev_section # <<>>
                /\ last_top_level_line_num # 0
                /\ is_array_or_object_decl
                /\ first_top_level_line_num # 0
                /\ ~HasBlankLineBetween(lines, last_top_level_line_num - 1,
                                        first_top_level_line_num - 1)
             THEN TfFinalMerge(lines, sections, i + 1,
                      [merged_sections EXCEPT ![Len(merged_sections)] = @ \o section])
             ELSE TfFinalMerge(lines, sections, i + 1, Append(merged_sections, section))

(***************************************************************************)
(* ST.003 on a .tfvars file: the checks of one group (rule_003.py:2789-    *)
(* 3322).  A group is a sequence of [num, line] records.                   *)
(***************************************************************************)
IsNameCharTf(c) == c \notin {"\"", "'", "=", " ", "\t"}

\* the length of the longest prefix of name characters
NameRun(text) ==
    IF \A i \in 1..Len(text) : IsNameCharTf(text[i]) THEN Len(text)
    ELSE (CHOOSE i \in 1..Len(text) :
             ~IsNameCharTf(text[i]) /\ \A j \in 1..(i - 1) : IsNameCharTf(text[j])) - 1

\* re.match(r'^\s*(["\'])([^"\'=\s]+)\1', before_equals): the name or <<>>
QuotedNameMatch(before_equals) ==
    LET Match(t, body) ==
            LET Ends(n) ==
                    IF /\ t # <<>> /\ t[1] \in {"\"", "'"}
                       /\ n > 0 /\ n < Len(body) /\ body[n + 1] = t[1]
                    THEN Slice(body, 0, n)
                    ELSE <<>>
            IN  Ends(NameRun(body))
        After(t) == Match(t, From(t, 1))
    IN  After(LStrip(before_equals))

\* re.match(r'^\s*([^"\'=\s]+)', before_equals): the name or <<>>
BareNameMatch(before_equals) ==
    LET Match(t) == Slice(t, 0, NameRun(t)) IN Match(LStrip(before_equals))

\* before_equals.strip() starts with a double or a single quote
StartsQuoted(before_equals) ==
    LET Quoted(t) == StartsWith(t, <<"\"">>) \/ StartsWith(t, <<"'">>)
    IN  Quoted(Strip(before_equals))

\* rule_003.py:2852-2896 (2793-2812): the param_data entry of one line;
\* name <<>> when the line contributes none
TfParamEntry(num, line, skip_string_values) ==
    LET Entry(display_line, equals_pos, before_equals, after_equals) ==
            LET is_object_or_array_decl ==
                    StartsWith(after_equals, <<"[">>) \/ StartsWith(after_equals, <<"{">>)
                Dropped(before_stripped) ==
                    \/ equals_pos = -1
                    \/ skip_string_values /\ IsEqualsInStringValue(display_line)
                    \/ StartsWith(before_stripped, <<"[">>)
                    \/ (before_stripped = <<>> /\ StartsWith(Strip(line), <<"[">>))
            IN  [name |-> IF Dropped(Strip(before_equals)) THEN <<>>
                          ELSE IF StartsQuoted(before_equals)
                          THEN QuotedNameMatch(before_equals)
                          ELSE BareNameMatch(before_equals),
                 line |-> line, num |-> num, equals_pos |-> equals_pos,
                 should_skip |-> is_object_or_array_decl /\ Ind(line) > 0]
        At(display_line, equals_pos) ==
            Entry(display_line, equals_pos, Slice(display_line, 0, equals_pos),
                  Strip(From(display_line, equals_pos + 1)))
        On(display_line) == At(display_line, Find(display_line, "="))
    IN  On(ExpandTabs(line))

\* param_data of a group
TfParamData(group, skip_string_values) ==
    LET entries == [k \in 1..Len(group) |->
                       TfParamEntry(group[k].num, group[k].line, skip_string_values)]
    IN  SelectSeq(entries, LAMBDA e : e.name # <<>>)

\* max(len(p[0]) for p in params)
LongestName(params) ==
    CHOOSE m \in {Len(params[k].name) : k \in 1..Len(params)} :
        \A k \in 1..Len(params) : Len(params[k].name) <= m

HasTab(line) == Has(line, "\t")

\* rule_003.py:2904-2930 (2817-2830, 3032-3055): longest_param_name_length
TfLongestParamLen(param_data) ==
    LET Longest(non_skipped, skipped, non_tab) ==
            IF non_skipped # <<>>
            THEN IF /\ skipped # <<>>
                    /\ LongestName(skipped) > LongestName(non_skipped)
                    /\ LongestName(skipped) - LongestName(non_skipped) >= 4
                 THEN LongestName(skipped)
                 ELSE LongestName(non_skipped)
            ELSE IF non_tab # <<>> THEN LongestName(non_tab)
            ELSE LongestName(param_data)
    IN  Longest(SelectSeq(param_data, LAMBDA e : ~e.should_skip /\ ~HasTab(e.line)),
                SelectSeq(param_data, LAMBDA e : e.should_skip /\ ~HasTab(e.line)),
                SelectSeq(param_data, LAMBDA e : ~HasTab(e.line)))

\* has_quoted_params of the tfvars checks: a double or a single quote counts
TfHasQuotedParams(param_data) ==
    \E k \in 1..Len(param_data) :
        StartsQuoted(Slice(param_data[k].line, 0, Find(param_data[k].line, "=")))

\* the position of '=' computed from the longest name
TfExpectedByLongest(param_data, indent_level) ==
    indent_level * 2 + TfLongestParamLen(param_data)
        + (IF TfHasQuotedParams(param_data) THEN 2 ELSE 0) + 1

\* _compute_expected_equals_location_tfvars; -1 for None
ComputeExpectedEqualsLocationTfvars(group, indent_level) ==
    LET Expected(param_data) ==
            IF param_data = <<>> THEN -1
            ELSE TfExpectedByLongest(param_data, indent_level)
    IN  Expected(TfParamData(group, FALSE))

\* _check_parameter_spacing_tfvars
CheckParameterSpacingTfvars(line, actual_line_num, block_type) ==
    LET Spacing(equals_pos, before_equals_raw, after_equals) ==
            LET before ==
                    IF Strip(before_equals_raw) = <<>> \/ ~EndsWith(before_equals_raw, <<" ">>)
                    THEN <<Diag(actual_line_num, "before_least", block_type, 0, 0)>>
                    ELSE <<>>
                after ==
                    IF after_equals = <<>> \/ after_equals[1] # " "
                    THEN <<Diag(actual_line_num, "after_least", block_type, 0, 0)>>
                    ELSE IF Len(after_equals) > 1 /\ after_equals[2] = " "
                    THEN <<Diag(actual_line_num, "after_multi", block_type, 0, 0)>>
                    ELSE <<>>
            IN  IF equals_pos = -1 THEN <<>> ELSE before \o after
        At(equals_pos) ==
            Spacing(equals_pos, Slice(line, 0, equals_pos), From(line, equals_pos + 1))
    IN  At(Find(line, "="))

\* unique_equals_positions (rule_003.py:2935-2942): the positions of the
\* lines without a tab, in insertion order
RECURSIVE UniquePositions(_, _, _)
UniquePositions(param_data, k, keys) ==
    IF k > Len(param_data) THEN keys
    ELSE IF HasTab(param_data[k].line) \/ \E m \in 1..Len(keys) : keys[m] = param_data[k].equals_pos
    THEN UniquePositions(param_data, k + 1, keys)
    ELSE UniquePositions(param_data, k + 1, Append(keys, param_data[k].equals_pos))

\* the number of lines without a tab whose '=' is at this position
CountAt(param_data, pos) ==
    Cardinality({k \in 1..Len(param_data) :
                    param_data[k].equals_pos = pos /\ ~HasTab(param_data[k].line)})

\* rule_003.py:2946-3011: every '=' of the group is at one position
TfAlignedGroupErrors(param_data, indent_level, block_type, aligned_position) ==
    LET Errors(expected_equals_location, checked) ==
            LET Align(e) ==
                    IF /\ aligned_position < expected_equals_location
                       /\ e.equals_pos # expected_equals_location
                    THEN <<Diag(e.num, "not_aligned_expected", block_type,
                                expected_equals_location - indent_level * 2 - Len(e.name),
                                expected_equals_location + 1)>>
                    ELSE <<>>
                After(e) ==
                    IF ~StartsWith(From(e.line, Find(e.line, "=") + 1), <<" ">>)
                    THEN <<Diag(e.num, "after_least", block_type, 0, 0)>>
                    ELSE <<>>
            IN  Flatten([k \in 1..Len(checked) |-> Align(checked[k])])
                    \o Flatten([k \in 1..Len(checked) |-> After(checked[k])])
    IN  Errors(TfExpectedByLongest(param_data, indent_level),
               SelectSeq(param_data, LAMBDA e : ~e.should_skip /\ ~HasTab(e.line)))

\* rule_003.py:3090-3137: the most common position is the expected one
TfMostCommonErrors(param_data, indent_level, block_type, most_common_pos) ==
    LET Errors(checked) ==
            LET Align(e) ==
                    IF \/ e.equals_pos = most_common_pos
                       \/ Abs(e.equals_pos - most_common_pos) <= 1
                    THEN <<>>
                    ELSE IF e.equals_pos < most_common_pos
                    THEN <<Diag(e.num, "not_aligned_expected", block_type,
                                most_common_pos - indent_level * 2 - Len(e.name),
                                most_common_pos + 1)>>
                    ELSE <<Diag(e.num, "not_aligned_toomany", block_type, 0,
                                most_common_pos + 1)>>
                After(e) ==
                    IF ~StartsWith(From(e.line, e.equals_pos + 1), <<" ">>)
                    THEN <<Diag(e.num, "after_least", block_type, 0, 0)>>
                    ELSE <<>>
            IN  Flatten([k \in 1..Len(checked) |-> Align(checked[k])])
                    \o Flatten([k \in 1..Len(checked) |-> After(checked[k])])
    IN  Errors(SelectSeq(param_data, LAMBDA e : ~e.should_skip))

\* rule_003.py:3139-3290: alignment to the longest name.  At this point
\* use_most_common is False, so the branches that need it are never taken,
\* and of the tests of lines 3193-3267 only 'within one column' can hold.
TfLongestErrors(param_data, indent_level, block_type) ==
    LET Errors(expected_equals_location) ==
            LET Align(e) ==
                    IF \/ e.should_skip
                       \/ e.equals_pos = expected_equals_location
                       \/ HasTab(e.line)
                       \/ Ind(e.line) % 2 # 0
                       \/ /\ CountAt(param_data, e.equals_pos) >= 2
                          /\ Abs(e.equals_pos - expected_equals_location) <= 1
                    THEN <<>>
                    ELSE IF e.equals_pos < expected_equals_location
                    THEN <<Diag(e.num, "not_aligned_expected", block_type,
                                expected_equals_location - indent_level * 2 - Len(e.name)
                                    - (IF StartsQuoted(Slice(e.line, 0, Find(e.line, "=")))
                                       THEN 2 ELSE 0),
                                expected_equals_location + 1)>>
                    ELSE <<Diag(e.num, "not_aligned_toomany", block_type, 0,
                                expected_equals_location + 1)>>
            IN  Flatten([k \in 1..Len(param_data) |-> Align(param_data[k])])
    IN  Errors(TfExpectedByLongest(param_data, indent_level))

\* rule_003.py:2841-2848: the first occurrence of each line number
RECURSIVE UniqueGroupLines(_, _, _)
UniqueGroupLines(group, k, acc) ==
    IF k > Len(group) THEN acc
    ELSE IF \E m \in 1..Len(acc) : acc[m].num = group[k].num
    THEN UniqueGroupLines(group, k + 1, acc)
    ELSE UniqueGroupLines(group, k + 1, Append(acc, group[k]))

\* _check_group_alignment_tfvars
CheckGroupAlignmentTfvars(group_lines, indent_level, block_type) ==
    LET \* max(unique_equals_positions.items(), key=count): the first of the
        \* positions with the highest count
        MostCommon(param_data, unique_equals_positions) ==
            IF unique_equals_positions = <<>> THEN 0
            ELSE unique_equals_positions[
                     CHOOSE k \in 1..Len(unique_equals_positions) :
                         /\ \A j \in 1..Len(unique_equals_positions) :
                                CountAt(param_data, unique_equals_positions[j])
                                    <= CountAt(param_data, unique_equals_positions[k])
                         /\ \A j \in 1..(k - 1) :
                                CountAt(param_data, unique_equals_positions[j])
                                    < CountAt(param_data, unique_equals_positions[k])]
        UseMostCommon(most_common_pos, most_common_count, total_params,
                      expected_based_on_longest) ==
            /\ \/ 2 * most_common_count > total_params
               \/ (total_params = 2 /\ most_common_count = 2)
            /\ Abs(most_common_pos - expected_based_on_longest) < 2
        Decide(param_data, unique_equals_positions, most_common_pos, non_tab) ==
            IF Len(param_data) < 2 THEN <<>>
            ELSE IF Len(unique_equals_positions) = 1
            THEN TfAlignedGroupErrors(param_data, indent_level, block_type,
                                      unique_equals_positions[1])
            ELSE IF UseMostCommon(most_common_pos,
                        IF unique_equals_positions = <<>> THEN 0
                        ELSE CountAt(param_data, most_common_pos),
                        IF unique_equals_positions = <<>> /\ non_tab = 0
                        THEN Len(param_data) ELSE non_tab,
                        TfExpectedByLongest(param_data, indent_level))
            THEN TfMostCommonErrors(param_data, indent_level, block_type, most_common_pos)
            ELSE TfLongestErrors(param_data, indent_level, block_type)
        Positions(param_data, unique_equals_positions) ==
            Decide(param_data, unique_equals_positions,
                   MostCommon(param_data, unique_equals_positions),
                   Len(SelectSeq(param_data, LAMBDA e : ~HasTab(e.line))))
        Check(param_data) == Positions(param_data, UniquePositions(param_data, 1, <<>>))
    IN  Check(TfParamData(UniqueGroupLines(group_lines, 1, <<>>), TRUE))

(***************************************************************************)
(* ST.003 on a .tfvars file: the checks of one section                     *)
(* (_check_tfvars_parameter_alignment_in_section, rule_003.py:2595-2786)   *)
(***************************************************************************)
\* the line of a parameter of a section: line_content.rstrip()
TfLine(lines, num) == RStrip(lines[num])

\* rule_003.py:2612-2620: parameter_lines, as line numbers
TfParameterLines(lines, section) ==
    SelectSeq(section, LAMBDA num :
        LET line == TfLine(lines, num)
        IN  /\ Has(line, "=")
            /\ ~IsComment(line)
            /\ ~IsBlockDeclaration(line)
            /\ ~IsEqualsInStringValue(line))

\* rule_003.py:2683-2700: an opening brace or an object declaration follows
\* the closing brace at check_line_idx
OpensAfter(lines, check_line_idx, actual_line_num) ==
    \E next_line_idx \in (check_line_idx + 1)..(actual_line_num - 2) :
        /\ next_line_idx < Len(lines)
        /\ LET next_line == RStripComma(Strip(lines[next_line_idx + 1]))
           IN  /\ ~StartsWith(next_line, <<"#">>)
               /\ \/ next_line = <<"{">>
                  \/ Has(next_line, "=") /\ StartsWith(Strip(AfterEq(next_line)), <<"{">>)

\* rule_003.py:2666-2702: has_structural_boundary
HasStructuralBoundary(lines, prev_same_level_line_num, actual_line_num, indent) ==
    \E check_line_idx \in (prev_same_level_line_num - 1)..(actual_line_num - 2) :
        /\ check_line_idx < Len(lines)
        /\ RStripComma(Strip(lines[check_line_idx + 1])) = <<"}">>
        /\ Ind(lines[check_line_idx + 1]) < indent
        /\ OpensAfter(lines, check_line_idx, actual_line_num)

\* rule_003.py:2643-2704: the group of the indent level is closed before the
\* k-th parameter line
TfSplitsBefore(lines, parameter_lines, k) ==
    LET SameLevel(j, indent_level) ==
            Ind(TfLine(lines, parameter_lines[j])) \div 2 = indent_level
        Splits(num, indent, current_idx) ==
            LET Gap(prev_same_level_line_num) ==
                    \/ HasBlankLineBetween(lines, prev_same_level_line_num - 1, num - 1)
                    \/ /\ indent \div 2 > 0
                       /\ HasStructuralBoundary(lines, prev_same_level_line_num, num, indent)
            IN  /\ \E j \in 1..(k - 1) : Ind(TfLine(lines, parameter_lines[j])) % 2 = 0
                /\ \E j \in 1..(current_idx - 1) : SameLevel(j, indent \div 2)
                /\ Gap(parameter_lines[
                           CHOOSE j \in 1..(current_idx - 1) :
                               /\ SameLevel(j, indent \div 2)
                               /\ \A m \in (j + 1)..(current_idx - 1) :
                                      ~SameLevel(m, indent \div 2)])
    IN  Splits(parameter_lines[k], Ind(TfLine(lines, parameter_lines[k])),
               CHOOSE m \in 1..k :
                   /\ parameter_lines[m] = parameter_lines[k]
                   /\ \A j \in 1..(m - 1) : parameter_lines[j] # parameter_lines[k])

\* rule_003.py:2632-2725: the groups of one indent level, in the order of
\* groups[indent_level]; group members are positions in parameter_lines
RECURSIVE TfLevelGroups(_, _, _, _, _, _)
TfLevelGroups(lines, parameter_lines, indent_level, k, current_group, groups) ==
    IF k > Len(parameter_lines)
    THEN IF current_group # <<>> THEN Append(groups, current_group) ELSE groups
    ELSE LET indent == Ind(TfLine(lines, parameter_lines[k]))
         IN  IF indent % 2 # 0 \/ indent \div 2 # indent_level
             THEN TfLevelGroups(lines, parameter_lines, indent_level, k + 1,
                                current_group, groups)
             ELSE IF TfSplitsBefore(lines, parameter_lines, k) /\ current_group # <<>>
             THEN TfLevelGroups(lines, parameter_lines, indent_level, k + 1,
                                <<parameter_lines[k]>>, Append(groups, current_group))
             ELSE TfLevelGroups(lines, parameter_lines, indent_level, k + 1,
                                Append(current_group, parameter_lines[k]), groups)

\* the keys of groups in insertion order
RECURSIVE TfLevelKeys(_, _, _, _)
TfLevelKeys(lines, parameter_lines, k, keys) ==
    IF k > Len(parameter_lines) THEN keys
    ELSE LET indent == Ind(TfLine(lines, parameter_lines[k]))
         IN  IF indent % 2 # 0 \/ \E m \in 1..Len(keys) : keys[m] = indent \div 2
             THEN TfLevelKeys(lines, parameter_lines, k + 1, keys)
             ELSE TfLevelKeys(lines, parameter_lines, k + 1, Append(keys, indent \div 2))

\* rule_003.py:2736-2775: a top-level group of one line while an override is
\* given: [errors, done] with done TRUE where the code says 'continue'
TfOverride(line, actual_line_num, block_type, top_level_expected_override) ==
    LET NameLen(before_equals) ==
            IF StartsQuoted(before_equals)
            THEN (IF QuotedNameMatch(before_equals) # <<>>
                  THEN Len(QuotedNameMatch(before_equals))
                  ELSE Len(StripQuotes(Strip(before_equals)))) + 2
            ELSE Len(Strip(before_equals))
        Decide(applies, required_spaces_before_equals, spacing_errors) ==
            IF applies /\ required_spaces_before_equals >= 0
            THEN [errors |-> <<Diag(actual_line_num, "not_aligned_expected", block_type,
                                    required_spaces_before_equals,
                                    top_level_expected_override + 1)>> \o spacing_errors,
                  done |-> TRUE]
            ELSE [errors |-> spacing_errors, done |-> FALSE]
        At(display_line, equals_pos) ==
            Decide(/\ equals_pos # -1
                   /\ StartsWith(Strip(From(display_line, equals_pos + 1)), <<"{">>)
                   /\ ~HasTab(line)
                   /\ equals_pos # top_level_expected_override,
                   top_level_expected_override
                       - NameLen(Slice(display_line, 0, equals_pos)),
                   CheckParameterSpacingTfvars(line, actual_line_num, block_type))
        On(display_line) == At(display_line, Find(display_line, "="))
    IN  On(ExpandTabs(line))

\* rule_003.py:2730-2784: the errors of one group; -1 stands for no override
TfGroupErrors(lines, group, indent_level, block_type, top_level_expected_override) ==
    With([k \in 1..Len(group) |->
             With(SortedByIndex(group)[k], LAMBDA num :
                 [num |-> num, line |-> TfLine(lines, num)])],
         LAMBDA group_lines :
    With(IF /\ indent_level = 0
            /\ Len(group_lines) = 1
            /\ top_level_expected_override # -1
         THEN TfOverride(group_lines[1].line, group_lines[1].num, block_type,
                         top_level_expected_override)
         ELSE [errors |-> <<>>, done |-> FALSE],
         LAMBDA over :
    IF over.done THEN over.errors
    ELSE over.errors
            \o CheckGroupAlignmentTfvars(group_lines, indent_level, block_type)
            \o Flatten([k \in 1..Len(group_lines) |->
                   CheckParameterSpacingTfvars(group_lines[k].line,
                                               group_lines[k].num, block_type)])))

\* rule_003.py:2622-2728: the groups of a section in the order they are
\* checked, each with its indent level
TfSectionGroups(lines, section) ==
    With(TfParameterLines(lines, section), LAMBDA parameter_lines :
    With(TfLevelKeys(lines, parameter_lines, 1, <<>>), LAMBDA keys :
    Flatten([i \in 1..Len(keys) |->
        With(TfLevelGroups(lines, parameter_lines, keys[i], 1, <<>>, <<>>),
             LAMBDA groups :
                 [k \in 1..Len(groups) |->
                     [indent_level |-> keys[i], group |-> groups[k]]])])))

\* _check_tfvars_parameter_alignment_in_section
CheckTfvarsParameterAlignmentInSection(lines, section, block_type, top_level_expected_override) ==
    With(TfSectionGroups(lines, section), LAMBDA groups :
        Flatten([k \in 1..Len(groups) |->
                    TfGroupErrors(lines, groups[k].group, groups[k].indent_level, block_type,
                                  top_level_expected_override)]))

(***************************************************************************)
(* ST.003 on a .tfvars file: the check loop over the sections              *)
(* (_check_tfvars_parameter_alignment, rule_003.py:2484-2592)              *)
(***************************************************************************)
\* rule_003.py:2503-2509: the top-level entries of temp_params
TfTopLevelParams(lines, section) ==
    SelectSeq(section, LAMBDA num :
        /\ Has(lines[num], "=")
        /\ ~IsComment(lines[num])
        /\ Ind(lines[num]) \div 2 = 0)

\* rule_003.py:2556-2558 and 2565-2567: a parameter at column 0
TfColumnZeroParam(lines, num) ==
    /\ Has(lines[num], "=")
    /\ Ind(lines[num]) = 0
    /\ ~IsComment(lines[num])

\* rule_003.py:2528-2548: has_other_top_level_object_decls
HasOtherTopLevelObjectDecls(lines, sections, last_multi_param_section_idx, section_idx) ==
    LET last_multi_param_section == sections[last_multi_param_section_idx]
        last_multi_param_last_line_num ==
            last_multi_param_section[Len(last_multi_param_section)]
        current_first_line_num == sections[section_idx][1]
    IN  \E check_idx \in (last_multi_param_section_idx + 1)..(section_idx - 1) :
            \E k \in 1..Len(sections[check_idx]) :
                LET check_line_num == sections[check_idx][k]
                    check_line == lines[check_line_num]
                IN  /\ check_line_num > last_multi_param_last_line_num
                    /\ check_line_num < current_first_line_num
                    /\ Has(check_line, "=")
                    /\ Ind(check_line) = 0
                    /\ ~IsComment(check_line)
                    /\ StartsWith(Strip(AfterEq(check_line)), <<"{">>)

\* rule_003.py:2551-2573: has_blank_line_between_sections
HasBlankLineBetweenSections(lines, sections, last_multi_param_section_idx, section_idx) ==
    LET IsParam(num) == TfColumnZeroParam(lines, num)
        Between(last_top_level_param_line_num, current_first_top_level_param_line_num) ==
            /\ last_top_level_param_line_num # 0
            /\ current_first_top_level_param_line_num # 0
            /\ HasBlankLineBetween(lines, last_top_level_param_line_num - 1,
                                   current_first_top_level_param_line_num - 1)
    IN  Between(LastWhere(sections[last_multi_param_section_idx], IsParam),
                FirstWhere(sections[section_idx], IsParam))

\* rule_003.py:2510-2576: top_level_override for the section, -1 for None
TopLevelOverride(lines, sections, section_idx, last_top_level_expected, last_top_level_group_size, last_multi_param_section_idx) ==
    IF /\ Len(TfTopLevelParams(lines, sections[section_idx])) = 1
       /\ last_top_level_expected # -1
       /\ last_top_level_group_size >= 2
       /\ last_multi_param_section_idx # 0
       /\ ~HasOtherTopLevelObjectDecls(lines, sections, last_multi_param_section_idx,
                                       section_idx)
       /\ ~HasBlankLineBetweenSections(lines, sections, last_multi_param_section_idx,
                                       section_idx)
    THEN last_top_level_expected
    ELSE -1

\* rule_003.py:2582-2585: only the first error of a line is kept
RECURSIVE KeepUnprocessed(_, _, _)
KeepUnprocessed(errors, k, all_errors) ==
    IF k > Len(errors) THEN all_errors
    ELSE IF \E m \in 1..Len(all_errors) : all_errors[m].line = errors[k].line
    THEN KeepUnprocessed(errors, k + 1, all_errors)
    ELSE KeepUnprocessed(errors, k + 1, Append(all_errors, errors[k]))

\* rule_003.py:2491-2585: the loop over the sections; 0 stands for None in
\* last_top_level_group_size and last_multi_param_section_idx, -1 in
\* last_top_level_expected
RECURSIVE TfCheckSections(_, _, _, _, _, _, _)
TfCheckSections(lines, sections, section_idx, last_top_level_expected, last_top_level_group_size, last_multi_param_section_idx, all_errors) ==
    IF section_idx > Len(sections) THEN all_errors
    ELSE
    With(TfTopLevelParams(lines, sections[section_idx]), LAMBDA top_level_params :
    With(Len(top_level_params) >= 2, LAMBDA refresh :
    TfCheckSections(lines, sections, section_idx + 1,
        IF refresh
        THEN ComputeExpectedEqualsLocationTfvars(
                 [k \in 1..Len(top_level_params) |->
                     [num |-> top_level_params[k], line |-> lines[top_level_params[k]]]], 0)
        ELSE last_top_level_expected,
        IF refresh THEN Len(top_level_params) ELSE last_top_level_group_size,
        IF refresh THEN section_idx ELSE last_multi_param_section_idx,
        KeepUnprocessed(
            CheckTfvarsParameterAlignmentInSection(lines, sections[section_idx],
                TxtTfvars,
                IF refresh THEN -1
                ELSE TopLevelOverride(lines, sections, section_idx,
                         last_top_level_expected, last_top_level_group_size,
                         last_multi_param_section_idx)),
            1, all_errors))))

(***************************************************************************)
(* ST.003 on a file that is not a .tfvars file, step by step               *)
(* (check_st003_parameter_alignment, rule_003.py:109-141).                 *)
(*                                                                         *)
(* store is the function attribute _split_into_code_sections._block_lines, *)
(* the one piece of state that outlives a call and is shared by all        *)
(* analyses of the process.                                                *)
(***************************************************************************)
AlignStart(file_is_tfvars, content) ==
    [engine |-> "align", pc |-> "start", tfvars |-> file_is_tfvars,
     content |-> content, blocks |-> <<>>, b |-> 1, li |-> 0,
     sp |-> SplitStart, post |-> MergeStart(<<>>, <<>>),
     all_errors |-> <<>>, reports |-> <<>>,
     lines |-> <<>>, assignment_lines |-> <<>>, ai |-> 1, grouping |-> TfStart]

\* rule_003.py:109-116: strip the comments, extract the blocks
AlignExtract(r) ==
    LET Extracted(blocks) ==
            [r EXCEPT !.blocks = blocks,
                      !.pc = IF blocks = <<>> THEN "report" ELSE "enter"]
    IN  Extracted(ExtractCodeBlocks(RemoveCommentsForParsing(r.content)))

\* the call of _split_into_code_sections if the function attribute were set
\* only while it is empty
AlignEnterOnce(r, store) ==
    [r |-> [r EXCEPT !.pc = "split", !.li = 0, !.sp = SplitStart],
     store |-> IF store = <<>> THEN r.blocks[r.b].lines ELSE store]

\* rule_003.py:278-301: the call of _split_into_code_sections for block r.b
\* stores its argument in the function attribute
AlignEnter(r, store) ==
    [r |-> [r EXCEPT !.pc = "split", !.li = 0, !.sp = SplitStart],
     store |-> r.blocks[r.b].lines]

\* rule_003.py:303-998: one line of the forward pass, or its end
AlignSplit(r) ==
    LET Ended(bl, sp) ==
            [r EXCEPT !.pc = "post", !.sp = sp,
                      !.post = MergeStart(bl, [k \in 1..Len(sp.sections) |->
                                                  sp.heap[sp.sections[k]]])]
        Forward(bl) ==
            IF r.li < Len(bl)
            THEN [r EXCEPT !.sp = SplitLine(bl, r.sp, r.li), !.li = r.li + 1]
            ELSE Ended(bl, IF Cur(r.sp) # <<>> THEN PushSection(r.sp) ELSE r.sp)
    IN  Forward(r.blocks[r.b].lines)

\* rule_003.py:1003-1350 and 123-125: one stretch of the post-passes between
\* two reads of the function attribute; after the last one, the checks of
\* every section of the block
AlignPost(r, store) ==
    LET Checked(blk, post) ==
            IF post.crashed
            THEN [r EXCEPT !.pc = "crashed", !.post = MergeStart(<<>>, <<>>)]
            ELSE [r EXCEPT
                    !.all_errors = @ \o SectionsErrors(post.sections, 1, blk.type,
                                                       blk.start, blk.lines),
                    !.b = r.b + 1,
                    !.post = MergeStart(<<>>, <<>>),
                    !.pc = IF r.b + 1 > Len(r.blocks) THEN "report" ELSE "enter"]
        Stepped(blk, m) ==
            IF m.at = "read" THEN [r EXCEPT !.post = m]
            ELSE Checked(blk, PostFinish(blk.lines, m))
        Block(blk) == Stepped(blk, MergeStep(blk.lines, r.post, store))
    IN  Block(r.blocks[r.b])

\* rule_003.py:127-141: sort, deduplicate, report
AlignReport(r) ==
    [r EXCEPT !.reports = Deduplicate(SortByLine(r.all_errors), 1, <<>>),
              !.pc = "done"]

\* rule_003.py:109-113 and 2014-2056: a .tfvars file: strip the comments,
\* collect the assignment lines, return if there are none
TfvarsCollect(r) ==
    LET Collected(lines, assignment_lines) ==
            [r EXCEPT !.lines = lines, !.assignment_lines = assignment_lines,
                      !.pc = IF assignment_lines = <<>> THEN "done" ELSE "group"]
        Cleaned(lines) == Collected(lines, TfAssignmentLines(lines, 1, FALSE, <<>>, <<>>))
    IN  Cleaned(RemoveCommentsForParsing(r.content))

\* rule_003.py:2073-2423: one assignment line of the grouping loop, or its end
TfvarsGroup(r) ==
    IF r.ai <= Len(r.assignment_lines)
    THEN [r EXCEPT !.grouping = TfGroupLine(r.lines, r.grouping,
                                            r.assignment_lines[r.ai]),
                   !.ai = r.ai + 1]
    ELSE [r EXCEPT !.pc = "check",
                   !.grouping = IF r.grouping.cur # <<>>
                                THEN [@ EXCEPT !.sections = Append(@, r.grouping.cur)]
                                ELSE @]

\* rule_003.py:2432-2592: the final merge, the checks of every section, the
\* sort and the reports
TfvarsCheck(r) ==
    LET Done(all_errors) ==
            [r EXCEPT !.all_errors = all_errors, !.reports = SortByLine(all_errors),
                      !.pc = "done"]
    IN  Done(TfCheckSections(r.lines, TfFinalMerge(r.lines, r.grouping.sections, 1, <<>>),
                             1, -1, 0, 0, <<>>))

\* one step of ST.003
AlignStep(r, store) ==
    IF r.pc = "start" /\ r.tfvars THEN [r |-> TfvarsCollect(r), store |-> store]
    ELSE IF r.pc = "group" THEN [r |-> TfvarsGroup(r), store |-> store]
    ELSE IF r.pc = "check" THEN [r |-> TfvarsCheck(r), store |-> store]
    ELSE IF r.pc = "start" THEN [r |-> AlignExtract(r), store |-> store]
    ELSE IF r.pc = "enter" THEN AlignEnter(r, store)
    ELSE IF r.pc = "split" THEN [r |-> AlignSplit(r), store |-> store]
    ELSE IF r.pc = "post" THEN [r |-> AlignPost(r, store), store |-> store]
    ELSE [r |-> AlignReport(r), store |-> store]

(***************************************************************************)
(* One analysis, start to end                                              *)
(***************************************************************************)
Finished(r) == r.pc \in {"done", "crashed"}

\* The state of an analysis when it is called
NewRun(engine, file_is_tfvars, content) ==
    IF engine = "indent" THEN IndentStart(file_is_tfvars, content)
    ELSE AlignStart(file_is_tfvars, content)

\* One step of an analysis: [r, store]
StepRun(r, store) ==
    IF r.engine = "indent" THEN [r |-> IndentStep(r), store |-> store]
    ELSE AlignStep(r, store)

\* The analysis run to its end with nothing else running
RECURSIVE RunFrom(_, _)
RunFrom(r, store) ==
    IF Finished(r) THEN r
    ELSE LET s == StepRun(r, store) IN RunFrom(s.r, s.store)

RunAlone(r) == RunFrom(r, <<>>)

(***************************************************************************)
(* The linter at work.  The surrounding tool hands jobs to its workers: a  *)
(* job is one rule (ST.005 "indent" or ST.003 "align") on one file.  A     *)
(* worker runs one analysis at a time; the steps of the analyses of        *)
(* different workers interleave.  store is shared by all of them.          *)
(***************************************************************************)
VARIABLES jobs, workers, started, an, store, out

vars == <<jobs, workers, started, an, store, out>>

NProcs == 2

Procs == 1..NProcs

Engines == {"indent", "align"}

Idle == [job |-> 0, r |-> [engine |-> "none", pc |-> "idle"]]

Job(engine, file_is_tfvars, content) ==
    [engine |-> engine, tfvars |-> file_is_tfvars, content |-> content]

\* The state before any analysis is called: the function attribute is unset
InitWith(job_lists, worker_counts) ==
    /\ jobs \in job_lists
    /\ workers \in worker_counts
    /\ started = 0
    /\ an = [p \in Procs |-> Idle]
    /\ store = <<>>
    /\ out = <<>>

At(p, engine, pcs) ==
    /\ an[p].job # 0
    /\ an[p].r.engine = engine
    /\ an[p].r.pc \in pcs

\* A free worker is given the next job: the rule is called on the file
Call(p) ==
    /\ p <= workers
    /\ an[p].job = 0
    /\ started < Len(jobs)
    /\ started' = started + 1
    /\ an' = [an EXCEPT ![p] =
                 [job |-> started + 1,
                  r |-> NewRun(jobs[started + 1].engine, jobs[started + 1].tfvars,
                               jobs[started + 1].content)]]
    /\ UNCHANGED <<jobs, workers, store, out>>

\* rule_005.py:106-152: one line of check_st005_indentation_level
IndentLine(p) ==
    /\ At(p, "indent", {"scan"})
    /\ an' = [an EXCEPT ![p].r = IndentStep(@)]
    /\ UNCHANGED <<jobs, workers, started, store, out>>

\* rule_003.py:109-116
Extract(p) ==
    /\ At(p, "align", {"start"})
    /\ ~an[p].r.tfvars
    /\ an' = [an EXCEPT ![p].r = AlignExtract(@)]
    /\ UNCHANGED <<jobs, workers, started, store, out>>

\* rule_003.py:119 and 278: _split_into_code_sections is entered
EnterSplit(p) ==
    /\ At(p, "align", {"enter"})
    /\ an' = [an EXCEPT ![p].r = AlignEnter(an[p].r, store).r]
    /\ store' = AlignEnter(an[p].r, store).store
    /\ UNCHANGED <<jobs, workers, started, out>>

\* rule_003.py:303-998
SplitOneLine(p) ==
    /\ At(p, "align", {"split"})
    /\ an' = [an EXCEPT ![p].r = AlignSplit(@)]
    /\ UNCHANGED <<jobs, workers, started, store, out>>

\* rule_003.py:1003-1350 and 123-125: up to the next read of the function
\* attribute (rule_003.py:1047), or to the end of the checks of the block
PostPass(p) ==
    /\ At(p, "align", {"post"})
    /\ an' = [an EXCEPT ![p].r = AlignPost(an[p].r, store)]
    /\ UNCHANGED <<jobs, workers, started, store, out>>

\* rule_003.py:127-141
Report(p) ==
    /\ At(p, "align", {"report"})
    /\ an' = [an EXCEPT ![p].r = AlignReport(@)]
    /\ UNCHANGED <<jobs, workers, started, store, out>>

\* rule_003.py:112-113 and 2014-2056
Collect(p) ==
    /\ At(p, "align", {"start"})
    /\ an[p].r.tfvars
    /\ an' = [an EXCEPT ![p].r = TfvarsCollect(@)]
    /\ UNCHANGED <<jobs, workers, started, store, out>>

\* rule_003.py:2073-2423
GroupOneLine(p) ==
    /\ At(p, "align", {"group"})
    /\ an' = [an EXCEPT ![p].r = TfvarsGroup(@)]
    /\ UNCHANGED <<jobs, workers, started, store, out>>

\* rule_003.py:2432-2592
CheckSections(p) ==
    /\ At(p, "align", {"check"})
    /\ an' = [an EXCEPT ![p].r = TfvarsCheck(@)]
    /\ UNCHANGED <<jobs, workers, started, store, out>>

\* The rule returns to its caller, or its exception reaches the caller: the
\* worker is free again
Return(p) ==
    /\ an[p].job # 0
    /\ Finished(an[p].r)
    /\ out' = Append(out, [job |-> an[p].job, crashed |-> an[p].r.pc = "crashed",
                           reports |-> an[p].r.reports])
    /\ an' = [an EXCEPT ![p] = Idle]
    /\ UNCHANGED <<jobs, workers, started, store>>

Next ==
    \E p \in Procs :
        \/ Call(p)
        \/ IndentLine(p)
        \/ Extract(p)
        \/ EnterSplit(p)
        \/ SplitOneLine(p)
        \/ PostPass(p)
        \/ Report(p)
        \/ Collect(p)
        \/ GroupOneLine(p)
        \/ CheckSections(p)
        \/ Return(p)

(***************************************************************************)
(* Inputs.  A file is a non-empty sequence of lines, a line a sequence of  *)
(* characters.                                                             *)
(***************************************************************************)
\* the sequences of at most n members of the alphabet
SeqsUpTo(alphabet, n) == UNION {[1..k -> alphabet] : k \in 0..n}

\* one worker, one job: every rule on every file of the corpus, under a .tf
\* name and under a .tfvars name
SingleJobs(corpus) ==
    {<<Job(engine, file_is_tfvars, content)>> :
        engine \in Engines, file_is_tfvars \in BOOLEAN, content \in corpus}

\* The analysis that worker p runs, and the file it runs on
Running(p) == an[p].job # 0

FileOf(p) == jobs[an[p].job]

(***************************************************************************)
(* C1: heredoc bodies                                                      *)
(***************************************************************************)
MaxHeredocBody == 3

LnLocals == <<"l","o","c","a","l","s"," ","{">>

LnHeredocStart == <<" "," ","a"," ","="," ","<","<","E","O","T">>

LnTerminator == <<"E","O","T">>

LnClose == <<"}">>

LnOtherMarker == <<" "," ","b"," ","="," ","<","<","X","Y">>

HeredocBodyAlphabet ==
    { LnClose, LnLocals, <<"x","=","1">>, <<" "," ","y"," "," ","="," ","2">>, <<" "," "," ","z"," ","="," ","1">>,
      LnOtherMarker }

HeredocCorpus ==
    { pre \o <<LnHeredocStart>> \o body \o <<LnTerminator>> \o post :
        pre \in {<<>>, <<LnLocals>>},
        body \in SeqsUpTo(HeredocBodyAlphabet, MaxHeredocBody) \ {<<>>},
        post \in {<<>>, <<LnClose>>} }

InitHeredoc == InitWith(SingleJobs(HeredocCorpus), {1})

SpecHeredoc == InitHeredoc /\ [][Next]_vars

\* the lines strictly between a heredoc start line and its terminator line
RECURSIVE HeredocBodyLines(_, _, _, _, _)
HeredocBodyLines(content, i, terminator, pending, acc) ==
    IF i > Len(content) THEN acc
    ELSE IF terminator = <<>>
    THEN HeredocBodyLines(content, i + 1, HeredocMatch(content[i]), {}, acc)
    ELSE IF Strip(content[i]) = terminator
    THEN HeredocBodyLines(content, i + 1, <<>>, {}, acc \cup pending)
    ELSE HeredocBodyLines(content, i + 1, terminator, pending \cup {i}, acc)

ReportedLines(reports) == {reports[k].line : k \in 1..Len(reports)}

\* C1: no line strictly between a heredoc start line and its terminator line
\* is the line number of a diagnostic of either rule, whatever the file
C1_NoDiagnosticInHeredocBody ==
    \A p \in Procs :
        Running(p) /\ Finished(an[p].r) =>
            ReportedLines(an[p].r.reports)
                \cap HeredocBodyLines(FileOf(p).content, 1, <<>>, {}, {}) = {}


(***************************************************************************)
(* C2-C5: alignment groups                                                 *)
(***************************************************************************)
MaxMembers == 2

MaxSpacesBefore == 3

MaxSpacesAfter == 2

Spaces(n) == [i \in 1..n |-> " "]

MemberNames == { <<"a">>, <<"b","b">>, <<"'","c","'">>, <<"\"", "d", "\"">> }

\* the lines  <indent><name><before>=<after>1
MemberLines(indent) ==
    { Spaces(indent) \o name \o Spaces(before) \o <<"=">> \o Spaces(after) \o <<"1">> :
        name \in MemberNames, before \in 1..MaxSpacesBefore, after \in 0..MaxSpacesAfter }

\* a locals block of one to MaxMembers assignments, and the same assignments
\* at column 0 as a .tfvars file has them
GroupCorpus ==
    { <<LnLocals>> \o body \o <<LnClose>> :
        body \in SeqsUpTo(MemberLines(2), MaxMembers) \ {<<>>} }
    \cup (SeqsUpTo(MemberLines(0), MaxMembers) \ {<<>>})

InitGroups == InitWith(SingleJobs(GroupCorpus), {1})

SpecGroups == InitGroups /\ [][Next]_vars

\* a finished run of the alignment rule
AlignDone(p) == Running(p) /\ an[p].r.engine = "align" /\ an[p].r.pc = "done"

\* The alignment groups of a file on the block path: every sub-group of every
\* section of every block, with its parameter members
BlockGroups(content) ==
    LET blocks == ExtractCodeBlocks(RemoveCommentsForParsing(content))
        Members(blk, sub_group) ==
            LET param_data == ParamData(blk.lines, sub_group)
            IN  [k \in 1..Len(param_data) |->
                    [name |-> param_data[k].name, line |-> param_data[k].line,
                     num |-> blk.start + param_data[k].idx + 1,
                     equals_pos |-> param_data[k].equals_pos]]
        OfSection(blk, section) ==
            LET groups == SectionSubGroups(section, blk.lines)
            IN  { [indent_level |-> groups[k].indent_level,
                   members |-> Members(blk, groups[k].sub_group)] : k \in 1..Len(groups) }
        OfBlock(blk) ==
            LET sections == SplitIntoCodeSections(blk.lines).sections
            IN  UNION { OfSection(blk, sections[s]) : s \in 1..Len(sections) }
    IN  UNION { OfBlock(blocks[b]) : b \in 1..Len(blocks) }

\* The alignment groups of a finished run on a .tfvars file
TfvarsGroups(r) ==
    LET sections == TfFinalMerge(r.lines, r.grouping.sections, 1, <<>>)
        Members(group) ==
            LET sorted == SortedByIndex(group)
                param_data ==
                    TfParamData(UniqueGroupLines(
                        [k \in 1..Len(sorted) |->
                            [num |-> sorted[k], line |-> TfLine(r.lines, sorted[k])]],
                        1, <<>>), TRUE)
            IN  [k \in 1..Len(param_data) |->
                    [name |-> param_data[k].name, line |-> param_data[k].line,
                     num |-> param_data[k].num, equals_pos |-> param_data[k].equals_pos]]
        OfSection(section) ==
            LET groups == TfSectionGroups(r.lines, section)
            IN  { [indent_level |-> groups[k].indent_level,
                   members |-> Members(groups[k].group)] : k \in 1..Len(groups) }
    IN  IF r.assignment_lines = <<>> THEN {}
        ELSE UNION { OfSection(sections[s]) : s \in 1..Len(sections) }

GroupsOf(p) ==
    IF FileOf(p).tfvars THEN TfvarsGroups(an[p].r) ELSE BlockGroups(FileOf(p).content)

MembersOf(g) == {g.members[k] : k \in 1..Len(g.members)}

\* the name of the member is written in quotes
IsQuoted(m) == StartsQuoted(Slice(m.line, 0, m.equals_pos))

\* indentLevel*2 + longest name + (2 if any member is quoted) + 1
FormulaIndex(g) ==
    g.indent_level * 2
        + (CHOOSE n \in {Len(m.name) : m \in MembersOf(g)} :
               \A m \in MembersOf(g) : Len(m.name) <= n)
        + (IF \E m \in MembersOf(g) : IsQuoted(m) THEN 2 ELSE 0) + 1

\* tab in the line, indentation not a multiple of 2, meta-parameter name
IsExcluded(m) ==
    \/ Has(m.line, "\t")
    \/ Ind(m.line) % 2 # 0
    \/ m.name \in MetaParameters

SpacesBeforeEquals(m) == TrailIn(Slice(m.line, 0, m.equals_pos), {" "})

SpacesAfterEquals(m) == LeadIn(From(m.line, m.equals_pos + 1), {" "})

NotAlignedKinds == {"not_aligned_expected", "not_aligned_toomany"}

DiagsAt(reports, num) == {reports[k] : k \in {j \in 1..Len(reports) : reports[j].line = num}}

\* C2: on the block path a member of a group of two or more has a 'not
\* aligned' diagnostic exactly if its '=' is not at the index
\* indentLevel*2 + longest name + quote characters + 1 and it is not
\* excluded, and the diagnostic names that index as a 1-based column
C2_NotAlignedIffOffFormulaIndex ==
    \A p \in Procs :
        AlignDone(p) /\ ~FileOf(p).tfvars =>
            \A g \in GroupsOf(p) :
                Len(g.members) >= 2 =>
                    \A m \in MembersOf(g) :
                        LET found == {d \in DiagsAt(an[p].r.reports, m.num) :
                                         d.msg.kind \in NotAlignedKinds}
                        IN  /\ found # {}
                                <=> (m.equals_pos # FormulaIndex(g) /\ ~IsExcluded(m))
                            /\ \A d \in found : d.msg.y = FormulaIndex(g) + 1

\* C3: a group of two or more members whose '=' are all at the index
\* indent + longest name + quote characters + 1, each followed by exactly one
\* space, has no diagnostic on any of its lines
C3_AlignedGroupHasNoDiagnostic ==
    \A p \in Procs :
        AlignDone(p) =>
            \A g \in GroupsOf(p) :
                (/\ Len(g.members) >= 2
                 /\ \A m \in MembersOf(g) :
                        m.equals_pos = FormulaIndex(g) /\ SpacesAfterEquals(m) = 1)
                    => \A m \in MembersOf(g) : DiagsAt(an[p].r.reports, m.num) = {}

\* C4: the line of a group of exactly one member has no diagnostic exactly if
\* one space precedes its '=' and one space follows it
C4_SingleMemberPassesIffOneSpaceEachSide ==
    \A p \in Procs :
        AlignDone(p) =>
            \A g \in GroupsOf(p) :
                Len(g.members) = 1 =>
                    \A m \in MembersOf(g) :
                        DiagsAt(an[p].r.reports, m.num) = {}
                            <=> (SpacesBeforeEquals(m) = 1 /\ SpacesAfterEquals(m) = 1)

\* C5: a member whose '=' is followed by no space has the diagnostic of that
\* case and one whose '=' is followed by two or more spaces has the other
\* one, whether or not the line has an alignment diagnostic as well
C5_SpacingAfterEqualsAlwaysReported ==
    \A p \in Procs :
        AlignDone(p) =>
            \A g \in GroupsOf(p) :
                \A m \in MembersOf(g) :
                    LET kinds == {d.msg.kind : d \in DiagsAt(an[p].r.reports, m.num)}
                    IN  /\ SpacesAfterEquals(m) = 0
                            => kinds \cap {"after_none", "after_least"} # {}
                        /\ SpacesAfterEquals(m) >= 2 => "after_multi" \in kinds

(***************************************************************************)
(* The general corpus: short files of block headers, nested objects,       *)
(* assignments at several columns and unmatched closing characters         *)
(***************************************************************************)
MaxLines == 3

LnObject == <<" "," ","t"," ","="," ","{">>

LnColumnZero == <<"k"," ","="," ","1">>

LnTight == <<" "," ","k","k"," ","=","1">>

LnParam == <<" "," ","k"," ","="," ","1">>

LnCloseBracket == <<"]">>

LineAlphabet ==
    { LnLocals, LnObject, LnColumnZero, LnTight, LnParam, LnClose, LnCloseBracket }

Corpus == SeqsUpTo(LineAlphabet, MaxLines) \ {<<>>}

Init == InitWith(SingleJobs(Corpus), {1})

Spec == Init /\ [][Next]_vars

(***************************************************************************)
(* C6: the indentation a line must have                                    *)
(***************************************************************************)
IndentDone(p) == Running(p) /\ an[p].r.engine = "indent" /\ an[p].r.pc = "done"

\* the indentation scan stopped before line k
RECURSIVE IndentRunTo(_, _)
IndentRunTo(r, k) ==
    IF r.pc = "done" \/ r.i >= k THEN r ELSE IndentRunTo(IndentStep(r), k)

\* brace depth + bracket depth before line k
DepthBefore(file_is_tfvars, content, k) ==
    LET r == IndentRunTo(IndentStart(file_is_tfvars, content), k)
    IN  r.brace_level + r.bracket_level

\* Line k is neither blank, comment, heredoc content nor tab-indented, and none
\* of the exceptions applies: (a) a block header without '=', (b) an
\* assignment outside every block, (c) a line that closes a construct, which
\* is measured at the depth of its opener, (d) an odd indentation
PlainLine(r, k) ==
    LET line == r.content[k]
    IN  /\ Strip(line) # <<>>
        /\ ~StartsWith(Strip(line), <<"#">>)
        /\ k \notin r.suppressed
        /\ GetIndentationLevel(line) # -1
        /\ ~(StartsWithBlockKeyword(Strip(line)) /\ ~Has(line, "="))
        /\ ~(Has(line, "=") /\ DepthBefore(r.tfvars, r.content, k) = 0)
        /\ ~(Has(line, "}") \/ Has(line, "]"))
        /\ GetIndentationLevel(line) % 2 = 0

\* C6: a plain line has an indentation diagnostic if and only if its leading
\* spaces differ from twice the depth before the line, and the expected value
\* of the diagnostic is twice that depth
C6_IndentationIsTwiceTheDepth ==
    \A p \in Procs : IndentDone(p) =>
        \A k \in 1..Len(an[p].r.content) : PlainLine(an[p].r, k) =>
            LET expected == 2 * DepthBefore(an[p].r.tfvars, an[p].r.content, k)
                diags == DiagsAt(an[p].r.reports, k)
            IN  /\ (diags # {}) <=> (GetIndentationLevel(an[p].r.content[k]) # expected)
                /\ \A d \in diags : d.msg.y = expected

(***************************************************************************)
(* C7: the order of the report calls of one run                            *)
(***************************************************************************)
NonDecreasingLines(reports) ==
    \A k \in 1..(Len(reports) - 1) : reports[k].line <= reports[k + 1].line

NoDuplicate(reports) ==
    \A j, k \in 1..Len(reports) : j # k => reports[j] # reports[k]

\* C7: the report calls of a run, as far as it has made them, are in
\* non-decreasing order of line number and no two of them have the same line
\* number and message
C7_ReportsSortedAndUnique ==
    \A p \in Procs : Running(p) =>
        /\ NonDecreasingLines(an[p].r.reports)
        /\ NoDuplicate(an[p].r.reports)

\* a finished run of ST.003 whose sections produced their errors out of line
\* order, and which reported them
C7_SortedAnUnsortedList ==
    \E p \in Procs :
        /\ AlignDone(p)
        /\ ~NonDecreasingLines(an[p].r.all_errors)
        /\ Len(an[p].r.reports) >= 2

(***************************************************************************)
(* C10: depths never negative, no failure                                  *)
(***************************************************************************)
\* the depths an analysis keeps: those of the indentation scanner, or those
\* of the partitioner of the block path and of the scanner of the .tfvars path
DepthsOf(r) ==
    IF r.engine = "indent" THEN {r.brace_level, r.bracket_level}
    ELSE {r.sp.brace_level, r.sp.bracket_level,
          r.grouping.brace_level, r.grouping.bracket_level}

\* C10: whatever lines have been processed, every depth kept by the three
\* scanners is at least 0, no analysis is in a failure state, and a finished
\* indentation scan has processed every line of the file
C10_DepthsNeverNegative ==
    \A p \in Procs : Running(p) =>
        /\ \A depth \in DepthsOf(an[p].r) : depth >= 0
        /\ an[p].r.pc # "crashed"
        /\ (an[p].r.engine = "indent" /\ an[p].r.pc = "done")
               => an[p].r.i = Len(an[p].r.content) + 1

\* the indentation scanner has processed a closing brace and a closing bracket
\* at depth 0, and then reached the end of the file
C10_ClosedAtDepthZero ==
    \E p \in Procs :
        /\ IndentDone(p)
        /\ Len(an[p].r.content) = 3
        /\ an[p].r.content[1] = LnClose
        /\ an[p].r.content[2] = LnCloseBracket
        /\ an[p].r.content[3] = LnLocals
        /\ an[p].r.brace_level = 1

(***************************************************************************)
(* Blocks whose parameters are separated by blank lines: the files on      *)
(* which the post-pass of the partitioner reads the stored block lines     *)
(***************************************************************************)
MaxBody == 3

LnFirst == <<" "," ","a"," ","=","1">>

LnSecond == <<" "," ","b","b","b"," ","="," ","2">>

LnBlank == <<>>

BodyAlphabet == { LnFirst, LnBlank, LnSecond }

BlockOf(body) == <<LnLocals>> \o body \o <<LnClose>>

SharedCorpus == { BlockOf(body) : body \in SeqsUpTo(BodyAlphabet, MaxBody) \ {<<>>} }

\* the other files: a block of one line, and a block whose two parameters are
\* separated by a blank line
OtherFiles == { BlockOf(<<LnFirst>>), BlockOf(<<LnFirst, LnBlank, LnSecond>>) }

(***************************************************************************)
(* C9: two analyses at the same time                                       *)
(***************************************************************************)
\* two workers, two jobs: one rule on a file of the corpus and on another file
ConcurrentJobs ==
    { pair \in { <<Job(engine, file_is_tfvars, content), Job(engine, file_is_tfvars, other)>> :
                    engine \in Engines, file_is_tfvars \in BOOLEAN,
                    content \in SharedCorpus, other \in OtherFiles } :
        pair[1].content # pair[2].content }

InitConcurrent == InitWith(ConcurrentJobs, {NProcs})

SpecConcurrent == InitConcurrent /\ [][Next]_vars

\* what the analysis of a job ends with when nothing else runs
Alone(job) == RunAlone(NewRun(job.engine, job.tfvars, job.content))

\* C9: an analysis that ends while another file is analysed at the same time
\* ends as it does alone: same report calls, no failure
C9_ConcurrentRunsAsAlone ==
    \A p \in Procs : (Running(p) /\ Finished(an[p].r)) =>
        /\ an[p].r.reports = Alone(FileOf(p)).reports
        /\ an[p].r.pc = Alone(FileOf(p)).pc

(***************************************************************************)
(* C8: the same file analysed twice                                        *)
(***************************************************************************)
MaxBetween == 1

\* one worker: a rule on a file of the corpus, the same rule on other files,
\* then the first job again
RerunJobs ==
    { <<Job(engine, file_is_tfvars, content)>>
          \o [k \in 1..Len(between) |-> Job(engine, file_is_tfvars, between[k])]
          \o <<Job(engine, file_is_tfvars, content)>> :
        engine \in Engines, file_is_tfvars \in BOOLEAN,
        content \in SharedCorpus, between \in SeqsUpTo(OtherFiles, MaxBetween) }

InitRerun == InitWith(RerunJobs, {1})

SpecRerun == InitRerun /\ [][Next]_vars

\* C8: two runs of the same rule on the same file, whatever ran in between,
\* end with the same report calls; and when all the runs have ended, each has
\* ended as it does when nothing ran before it, so it has read nothing an
\* earlier run has written
C8_RerunIsIdentical ==
    /\ \A i, j \in 1..Len(out) : jobs[out[i].job] = jobs[out[j].job] =>
           /\ out[i].reports = out[j].reports
           /\ out[i].crashed = out[j].crashed
    /\ Len(out) = Len(jobs) => \A i \in 1..Len(out) :
           /\ out[i].reports = Alone(jobs[out[i].job]).reports
           /\ out[i].crashed = (Alone(jobs[out[i].job]).pc = "crashed")

\* a block whose post-pass reads the stored lines was analysed, then a shorter
\* block, then the first one again, with the same diagnostics
C8_RerunAfterOtherFile ==
    /\ Len(out) = 3
    /\ jobs[1] = Job("align", FALSE, BlockOf(<<LnFirst, LnBlank, LnSecond>>))
    /\ jobs[2].content = BlockOf(<<LnFirst>>)
    /\ jobs[3] = jobs[1]
    /\ out[1].reports # <<>>
    /\ out[3].reports = out[1].reports

(***************************************************************************)
(* C11: blank lines between parameters                                     *)
(***************************************************************************)
MaxBlankBody == 3

LnComment == <<"#"," ","c">>

BlankAlphabet ==
    { <<"a"," ","="," ","1">>, <<"b","b","b"," ","="," ","2">>, LnBlank, <<"t"," ","="," ","{">>, <<" "," ","k"," ","="," ","1">>, LnClose, LnComment }

Indented(line) == IF line = <<>> THEN line ELSE Spaces(2) \o line

MaxOddBody == 4

\* members of an object, one of them with an odd indentation, and blank lines
OddBlankAlphabet ==
    { LnParam, LnBlank, <<" "," "," ","b"," ","="," ","1">>, <<" "," ","c","c"," ","="," ","1">> }

\* files of parameters, nested objects, comments and blank lines: flat as a
\* .tfvars file has them, and indented in a locals block; and an object whose
\* members are at even and odd indentations, alone and in a locals block
BlankCorpus ==
    LET bodies == SeqsUpTo(BlankAlphabet, MaxBlankBody) \ {<<>>}
        members == SeqsUpTo(OddBlankAlphabet, MaxOddBody) \ {<<>>}
    IN  bodies
        \cup { BlockOf([k \in 1..Len(body) |-> Indented(body[k])]) : body \in bodies }
        \cup { <<<<"t"," ","="," ","{">>>> \o body : body \in members }
        \cup { BlockOf(body) : body \in members }

InitBlank == InitWith(SingleJobs(BlankCorpus), {1})

SpecBlank == InitBlank /\ [][Next]_vars

\* some line strictly between lines a and b of the file is blank
BlankBetween(content, a, b) ==
    \E k \in (a + 1)..(b - 1) : Strip(content[k]) = <<>>

\* C11: two parameter lines with a blank line of the file between them are
\* never members of one alignment group
C11_BlankLineSeparatesGroups ==
    \A p \in Procs :
        AlignDone(p) =>
            \A g \in GroupsOf(p) :
                \A m1, m2 \in MembersOf(g) :
                    m1.num < m2.num => ~BlankBetween(FileOf(p).content, m1.num, m2.num)

\* the block  x = 1 / blank line / y = 2  was analysed: two groups of one member
C11_TwoSingleMemberGroups ==
    \E p \in Procs :
        /\ AlignDone(p)
        /\ ~FileOf(p).tfvars
        /\ FileOf(p).content = BlockOf(<<Indented(<<"a"," ","="," ","1">>), LnBlank, Indented(<<"b","b","b"," ","="," ","2">>)>>)
        /\ Cardinality(GroupsOf(p)) = 2
        /\ \A g \in GroupsOf(p) : Len(g.members) = 1
        /\ an[p].r.reports = <<>>

(***************************************************************************)
(* C12: the lines a heredoc suppresses                                     *)
(***************************************************************************)
\* the terminator awaited after the first k lines (<<>>: none): a start line
\* outside a heredoc sets it, the first later line whose trimmed content
\* equals it clears it, and nothing else changes it
RECURSIVE Awaited(_, _)
Awaited(lines, k) ==
    IF k = 0 THEN <<>>
    ELSE LET before == Awaited(lines, k - 1)
         IN  IF before = <<>> THEN HeredocMatch(lines[k])
             ELSE IF Strip(lines[k]) = before THEN <<>>
             ELSE before

\* line k lies after a heredoc start line and is not the terminator line
InHeredocSpan(lines, k) ==
    /\ Awaited(lines, k - 1) # <<>>
    /\ Strip(lines[k]) # Awaited(lines, k - 1)

\* C12: the indentation scanner has skipped, of the lines that are not blank,
\* exactly those after a heredoc start line and before its terminator line;
\* and after every line the partitioner of the block path awaits exactly the
\* terminator of the heredoc that is open there
C12_SuppressedIffInsideHeredoc ==
    \A p \in Procs : Running(p) =>
        /\ an[p].r.engine = "indent" =>
               an[p].r.suppressed =
                   { k \in 1..(an[p].r.i - 1) :
                       /\ Strip(an[p].r.content[k]) # <<>>
                       /\ InHeredocSpan(an[p].r.content, k) }
        /\ (an[p].r.engine = "align" /\ an[p].r.pc = "split") =>
               an[p].r.sp.heredoc_terminator =
                   Awaited(an[p].r.blocks[an[p].r.b].lines, an[p].r.li)

(***************************************************************************)
(* C13: .tfvars groups that are aligned at one column                      *)
(***************************************************************************)
MaxTolMembers == 2

MaxTolBefore == 2

TolNames == { <<"a">>, <<"b","b">>, <<"\"", "d", "\"">> }

\* the lines  <name><before>= 1
TolLines ==
    { name \o Spaces(before) \o <<"=", " ", "1">> :
        name \in TolNames, before \in 0..MaxTolBefore }

\* two members, the second with a tab in its value:  a<before>= 1  and
\* bb<before>= "<tab>"
TolTabFiles ==
    { << <<"a">> \o Spaces(first) \o <<"=", " ", "1">>,
         <<"b", "b">> \o Spaces(second) \o <<"=", " ", "\"", "\t", "\"">> >> :
        first \in 0..MaxTolBefore, second \in 0..MaxTolBefore }

\* two members of an object, the second the declaration of a nested object:
\* t = {  then    a<before>= 1  and    bbb<before>= {
TolNestedFiles ==
    { << <<"t"," ","="," ","{">>,
         <<" ", " ", "a">> \o Spaces(first) \o <<"=", " ", "1">>,
         <<" ", " ", "b", "b", "b">> \o Spaces(second) \o <<"=", " ", "{">> >> :
        first \in 0..MaxTolBefore, second \in 0..MaxTolBefore }

\* one to MaxTolMembers assignments, flat as a .tfvars file has them, and
\* indented in a locals block; and the files with a tab and with a nested
\* declaration
ToleranceCorpus ==
    LET bodies == SeqsUpTo(TolLines, MaxTolMembers) \ {<<>>}
    IN  bodies
        \cup { BlockOf([k \in 1..Len(body) |-> Indented(body[k])]) : body \in bodies }
        \cup TolTabFiles \cup TolNestedFiles

InitTolerance == InitWith(SingleJobs(ToleranceCorpus), {1})

SpecTolerance == InitTolerance /\ [][Next]_vars

\* every '=' of the group is at index c
AlignedAt(g, c) == \A m \in MembersOf(g) : m.equals_pos = c

HasNotAligned(reports, num) ==
    \E d \in DiagsAt(reports, num) : d.msg.kind \in NotAlignedKinds

\* C13: in a .tfvars file a group of two or more members whose '=' are all at
\* one index has no 'not aligned' diagnostic if that index is at least
\* indent + longest name + quote characters + 1, and has one, on some member,
\* if it is below
C13_CommonColumnTolerance ==
    \A p \in Procs :
        (AlignDone(p) /\ FileOf(p).tfvars) =>
            \A g \in GroupsOf(p) :
                \A c \in {m.equals_pos : m \in MembersOf(g)} :
                    (Len(g.members) >= 2 /\ AlignedAt(g, c)) =>
                        IF c >= FormulaIndex(g)
                        THEN \A m \in MembersOf(g) : ~HasNotAligned(an[p].r.reports, m.num)
                        ELSE \E m \in MembersOf(g) : HasNotAligned(an[p].r.reports, m.num)

\* a .tfvars file of two members aligned one column beyond the formula column
\* was analysed
C13_AlignedBeyondFormula ==
    \E p \in Procs :
        /\ AlignDone(p)
        /\ FileOf(p).tfvars
        /\ \E g \in GroupsOf(p) :
               /\ Len(g.members) = 2
               /\ AlignedAt(g, FormulaIndex(g) + 1)
               /\ \A m \in MembersOf(g) : ~HasNotAligned(an[p].r.reports, m.num)

(***************************************************************************)
(* C14: the resource block with the parameters a and bb                    *)
(***************************************************************************)
MaxExampleBody == 2

LnResource == <<"r","e","s","o","u","r","c","e"," ","\"","x","\""," ","\"","y","\""," ","{">>

LnA == <<" "," ","a"," ","="," ","1">>

LnBb == <<" "," ","b","b"," ","="," ","2">>

LnARewritten == <<" "," ","a"," "," ","="," ","1">>

ExampleAlphabet == { LnA, LnBb, LnARewritten }

ResourceOf(body) == <<LnResource>> \o body \o <<LnClose>>

ExampleCorpus ==
    { ResourceOf(body) : body \in SeqsUpTo(ExampleAlphabet, MaxExampleBody) \ {<<>>} }

InitExample == InitWith(SingleJobs(ExampleCorpus), {1})

SpecExample == InitExample /\ [][Next]_vars

\* the alignment analysis of the .tf file with these lines is finished
ExampleDone(p, content) ==
    AlignDone(p) /\ ~FileOf(p).tfvars /\ FileOf(p).content = content

\* C14 as stated: for the block with the lines "  a = 1" and "  bb = 2" both
\* parameter lines (file lines 2 and 3) receive an alignment diagnostic, and
\* after rewriting the first to "  a  = 1" nothing is reported
C14_BothLinesFlagged ==
    \A p \in Procs :
        /\ ExampleDone(p, ResourceOf(<<LnA, LnBb>>)) =>
               /\ HasNotAligned(an[p].r.reports, 2)
               /\ HasNotAligned(an[p].r.reports, 3)
        /\ ExampleDone(p, ResourceOf(<<LnARewritten, LnBb>>)) =>
               an[p].r.reports = <<>>

\* C14 amended: for that block the expected 0-based position of '=' is
\* 2 + 2 + 0 + 1 = 5, reported as column 6; only the line "  a = 1", whose '='
\* is at position 4, receives the alignment diagnostic (2 spaces expected),
\* the line "  bb = 2" has its '=' at position 5 already and receives none;
\* after rewriting the first to "  a  = 1" nothing is reported
C14_OnlyShorterNameFlagged ==
    \A p \in Procs :
        /\ ExampleDone(p, ResourceOf(<<LnA, LnBb>>)) =>
               an[p].r.reports =
                   <<Diag(2, "not_aligned_expected", <<"r","e","s","o","u","r","c","e",".","x",".","y">>, 2, 6)>>
        /\ ExampleDone(p, ResourceOf(<<LnARewritten, LnBb>>)) =>
               an[p].r.reports = <<>>

\* the block was analysed and one diagnostic was reported
C14_ExampleAnalysed ==
    \E p \in Procs :
        /\ ExampleDone(p, ResourceOf(<<LnA, LnBb>>))
        /\ Len(an[p].r.reports) = 1

(***************************************************************************)
(* C15: block-path diagnostics carry the file line number of a body line   *)
(***************************************************************************)
\* the file line on which the body of a block ends: the header line for a
\* one-line block, else the last line taken while the brace counter is positive
BodyEnd(content, block) ==
    IF Has(Strip(content[block.start]), "{") /\ Has(Strip(content[block.start]), "}")
    THEN block.start
    ELSE BodyFrom(content, block.start + 1, 1, <<>>).next - 1

InBlockBody(content, n) ==
    \E k \in 1..Len(ExtractCodeBlocks(content)) :
        /\ ExtractCodeBlocks(content)[k].start < n
        /\ n <= BodyEnd(content, ExtractCodeBlocks(content)[k])

\* the text of the line has what the diagnostic says about it
Describes(msg, line) ==
    LET pos == Find(line, "=")
        after == From(line, pos + 1)
        before == Slice(line, 0, pos)
        spaces == Len(before) - Len(RStrip(before))
    IN  /\ pos >= 0
        /\ CASE msg.kind = "after_none" -> ~StartsWith(after, <<" ">>)
             [] msg.kind = "after_multi" -> StartsWith(after, <<" ", " ">>)
             [] msg.kind = "single_before" -> spaces # 1
             [] msg.kind = "not_aligned_expected" -> pos < msg.y - 1
             [] msg.kind = "not_aligned_toomany" -> pos > msg.y - 1
             [] OTHER -> FALSE

\* C15: on the block path every diagnostic carries the 1-based file line number
\* of the parameter line it describes, and that line is after the header of an
\* extracted block and not after the line on which the block's brace counter
\* returns to zero; no line outside every block has a diagnostic
C15_DiagnosticsOnBodyLines ==
    \A p \in Procs :
        (AlignDone(p) /\ ~FileOf(p).tfvars) =>
            \A k \in 1..Len(an[p].r.reports) :
                /\ an[p].r.reports[k].line \in 1..Len(FileOf(p).content)
                /\ InBlockBody(FileOf(p).content, an[p].r.reports[k].line)
                /\ Describes(an[p].r.reports[k].msg,
                             FileOf(p).content[an[p].r.reports[k].line])

\* a file with a faulty assignment before a block and one in its body was
\* analysed, and only the body line was reported
C15_OutsideLineNotReported ==
    \E p \in Procs :
        /\ AlignDone(p) /\ ~FileOf(p).tfvars
        /\ FileOf(p).content = <<LnTight, LnLocals, LnTight>>
        /\ {an[p].r.reports[k].line : k \in 1..Len(an[p].r.reports)} = {3}

(***************************************************************************)
(* C16: the spacing count and the column of a 'not aligned' diagnostic     *)
(***************************************************************************)
\* the line with exactly k spaces between the parameter name as written and
\* its first '='
RewrittenWithSpaces(line, k) ==
    RStrip(Slice(line, 0, Find(line, "="))) \o Spaces(k) \o From(line, Find(line, "="))

\* C16: for every diagnostic 'Expected k spaces ..., column c' of a finished
\* alignment analysis (block path and .tfvars path), the diagnosed line
\* rewritten with exactly k spaces between the parameter name as written
\* (with its quotes) and '=' has its '=' at the 0-based index c - 1
C16_RewriteReachesExpectedColumn ==
    \A p \in Procs :
        AlignDone(p) =>
            \A k \in 1..Len(an[p].r.reports) :
                an[p].r.reports[k].msg.kind = "not_aligned_expected" =>
                    Find(RewrittenWithSpaces(FileOf(p).content[an[p].r.reports[k].line],
                                             an[p].r.reports[k].msg.x), "=")
                        = an[p].r.reports[k].msg.y - 1

(***************************************************************************)
(* C17: the depth trackers                                                 *)
(***************************************************************************)
MaxDepthLines == 3

LnArray == <<" "," ","u"," ","="," ","[">>

LnCloseOpen == <<"v"," ","="," ","\"","}","{","\"">>

LnBalanced == <<" "," ","w"," ","="," ","[","{","}","]">>

DepthAlphabet ==
    { LnLocals, LnObject, LnClose, LnArray, LnCloseBracket, LnCloseOpen, LnBalanced,
      LnColumnZero }

DepthCorpus == SeqsUpTo(DepthAlphabet, MaxDepthLines) \ {<<>>}

InitDepth == InitWith(SingleJobs(DepthCorpus), {1})

SpecDepth == InitDepth /\ [][Next]_vars

\* the depth of one bracket type after a line: unchanged if the line has as
\* many openers as closers, else changed by the difference and not below 0
DepthAfterLine(depth, line, opener, closer) ==
    IF Count(line, opener) = Count(line, closer) /\ Count(line, opener) > 0
    THEN depth
    ELSE Max(0, depth + Count(line, opener) - Count(line, closer))

\* the indentation scanner is at a line that it does not skip
IndentTracks(r) ==
    /\ r.engine = "indent" /\ r.pc = "scan"
    /\ Strip(r.content[r.i]) # <<>>
    /\ ~CheckHeredocState(r.content[r.i], r.in_heredoc, r.heredoc_terminator).in_heredoc
    /\ ~StartsWith(Strip(r.content[r.i]), <<"#">>)

\* the partitioner of the block path is at a line that it does not skip
SplitTracks(r) ==
    /\ r.engine = "align" /\ r.pc = "split"
    /\ r.li < Len(r.blocks[r.b].lines)
    /\ Strip(r.blocks[r.b].lines[r.li + 1]) # <<>>
    /\ ~StartsWith(Strip(r.blocks[r.b].lines[r.li + 1]), <<"#">>)
    /\ \/ ~r.sp.in_heredoc
       \/ /\ r.sp.heredoc_terminator # <<>>
          /\ Strip(r.blocks[r.b].lines[r.li + 1]) = r.sp.heredoc_terminator

\* the scanner of the .tfvars path is at an assignment line
GroupTracks(r) ==
    r.engine = "align" /\ r.pc = "group" /\ r.ai <= Len(r.assignment_lines)

\* C17: a step of a depth tracker over a line leaves the brace depth unchanged
\* if the line has as many '{' as '}', and else makes it
\* max(0, depth + opens - closes); likewise the bracket depth with '[' and ']'
C17_DepthAfterEachLine ==
    [][\A p \in Procs :
          (Running(p) /\ an'[p] # an[p]) =>
              /\ IndentTracks(an[p].r) =>
                     /\ an'[p].r.brace_level =
                            DepthAfterLine(an[p].r.brace_level,
                                           an[p].r.content[an[p].r.i], "{", "}")
                     /\ an'[p].r.bracket_level =
                            DepthAfterLine(an[p].r.bracket_level,
                                           an[p].r.content[an[p].r.i], "[", "]")
              /\ SplitTracks(an[p].r) =>
                     /\ an'[p].r.sp.brace_level =
                            DepthAfterLine(an[p].r.sp.brace_level,
                                an[p].r.blocks[an[p].r.b].lines[an[p].r.li + 1], "{", "}")
                     /\ an'[p].r.sp.bracket_level =
                            DepthAfterLine(an[p].r.sp.bracket_level,
                                an[p].r.blocks[an[p].r.b].lines[an[p].r.li + 1], "[", "]")
              /\ GroupTracks(an[p].r) =>
                     /\ an'[p].r.grouping.brace_level =
                            DepthAfterLine(an[p].r.grouping.brace_level,
                                TfLine(an[p].r.lines, an[p].r.assignment_lines[an[p].r.ai]),
                                "{", "}")
                     /\ an'[p].r.grouping.bracket_level =
                            DepthAfterLine(an[p].r.grouping.bracket_level,
                                TfLine(an[p].r.lines, an[p].r.assignment_lines[an[p].r.ai]),
                                "[", "]")]_vars

(***************************************************************************)
(* C18: members that are excluded from reporting                           *)
(***************************************************************************)
MaxExcludedMembers == 2

ExcludedNames == { <<"a">>, <<"c","o","u","n","t">>, <<"b","b","b","b","b","b","b">> }

\* the lines  <indent><name><one space or one tab>= 1
ExcludedLines(indents) ==
    { Spaces(indent) \o name \o sep \o <<"=", " ", "1">> :
        indent \in indents, name \in ExcludedNames, sep \in { <<" ">>, <<"\t">> } }

\* a locals block of assignments indented by 2 or by 3, and assignments at
\* column 0 as a .tfvars file has them
ExcludedCorpus ==
    { BlockOf(body) : body \in SeqsUpTo(ExcludedLines({2, 3}), MaxExcludedMembers) \ {<<>>} }
    \cup (SeqsUpTo(ExcludedLines({0}), MaxExcludedMembers) \ {<<>>})

InitExcluded == InitWith(SingleJobs(ExcludedCorpus), {1})

SpecExcluded == InitExcluded /\ [][Next]_vars

\* C18: in a group of two or more, on the block path and on the .tfvars path,
\* a member with a tab, with an indentation that is not a multiple of 2 or
\* with a meta-parameter name has no alignment diagnostic, and the column of
\* every 'not aligned' diagnostic of the group is the one computed with the
\* longest name of all members, the excluded ones included
C18_ExcludedButCounted ==
    \A p \in Procs :
        AlignDone(p) =>
            \A g \in GroupsOf(p) :
                Len(g.members) >= 2 =>
                    \A m \in MembersOf(g) :
                        \A d \in DiagsAt(an[p].r.reports, m.num) :
                            /\ IsExcluded(m) =>
                                   d.msg.kind \notin NotAlignedKinds \cup {"single_before"}
                            /\ d.msg.kind \in NotAlignedKinds =>
                                   d.msg.y - 1 = FormulaIndex(g)

(***************************************************************************)
(* C19: the indentation of a line that closes more than it opens           *)
(***************************************************************************)
MaxClosingLines == 3

LnInnerClose == <<" "," ","}">>

LnOddClose == <<" ","}">>

LnTabClose == <<"\t", "}">>

LnKeywordClose == <<"d","a","t","a"," ","}">>

LnAssignClose == <<"k"," ","="," ","1"," ","}">>

ClosingAlphabet ==
    { LnLocals, LnObject, LnArray, LnClose, LnInnerClose, LnOddClose, LnCloseBracket,
      LnTabClose, LnKeywordClose, LnAssignClose }

ClosingCorpus == SeqsUpTo(ClosingAlphabet, MaxClosingLines) \ {<<>>}

InitClosing == InitWith(SingleJobs(ClosingCorpus), {1})

SpecClosing == InitClosing /\ [][Next]_vars

\* the closing braces and brackets of the line minus the opening ones
NetClosers(line) ==
    (Count(line, "}") + Count(line, "]")) - (Count(line, "{") + Count(line, "["))

\* line k is neither blank, comment nor heredoc content, and closes more than
\* it opens
ClosingLine(r, k) ==
    /\ Strip(r.content[k]) # <<>>
    /\ ~StartsWith(Strip(r.content[k]), <<"#">>)
    /\ k \notin r.suppressed
    /\ NetClosers(r.content[k]) > 0

\* C19 as stated: a line whose closing braces and brackets outnumber the opening
\* ones by n > 0 has an indentation diagnostic if and only if its leading spaces
\* differ from 2 * max(0, depth before the line - n)
C19_CloserAlignsWithOpener ==
    \A p \in Procs : IndentDone(p) =>
        \A k \in 1..Len(an[p].r.content) : ClosingLine(an[p].r, k) =>
            ((DiagsAt(an[p].r.reports, k) # {})
                <=> (LeadIn(an[p].r.content[k], {" "})
                        # 2 * Max(0, DepthBefore(an[p].r.tfvars, an[p].r.content, k)
                                        - NetClosers(an[p].r.content[k]))))

\* line k is a closing line without '=', not a block keyword line, and
\* indented with spaces only
PureClosingLine(r, k) ==
    /\ ClosingLine(r, k)
    /\ ~Has(r.content[k], "=")
    /\ ~StartsWithBlockKeyword(Strip(r.content[k]))
    /\ GetIndentationLevel(r.content[k]) # -1

\* C19 amended: a line that has no '=', does not begin with a block keyword,
\* is indented with spaces only, and whose closing braces and brackets
\* outnumber the opening ones by n > 0, has an indentation diagnostic if and
\* only if its leading spaces differ from 2 * max(0, depth before the line - n)
C19_PureCloserAlignsWithOpener ==
    \A p \in Procs : IndentDone(p) =>
        \A k \in 1..Len(an[p].r.content) : PureClosingLine(an[p].r, k) =>
            ((DiagsAt(an[p].r.reports, k) # {})
                <=> (LeadIn(an[p].r.content[k], {" "})
                        # 2 * Max(0, DepthBefore(an[p].r.tfvars, an[p].r.content, k)
                                        - NetClosers(an[p].r.content[k]))))

\* a file was scanned in which the closing brace of an object at depth 2 is
\* at column 0 and reported, and the closing brace of the block is not
C19_CloserOfObjectAtColumnZero ==
    \E p \in Procs :
        /\ IndentDone(p)
        /\ an[p].r.content = <<LnLocals, LnObject, LnClose>>
        /\ DiagsAt(an[p].r.reports, 3) # {}

(***************************************************************************)
(* C20: block header lines                                                 *)
(***************************************************************************)
MaxHeaderLines == 3

LnIndentedLocals == <<" "," ","l","o","c","a","l","s"," ","{">>

LnOddLocals == <<" ","l","o","c","a","l","s"," ","{">>

LnData == <<"d","a","t","a"," ","x">>

LnIndentedData == <<" "," ","d","a","t","a"," ","x">>

HeaderAlphabet ==
    { LnLocals, LnIndentedLocals, LnOddLocals, LnData, LnIndentedData, LnObject,
      LnInnerClose, LnClose }

HeaderCorpus == SeqsUpTo(HeaderAlphabet, MaxHeaderLines) \ {<<>>}

InitHeader == InitWith(SingleJobs(HeaderCorpus), {1})

SpecHeader == InitHeader /\ [][Next]_vars

\* line k is not heredoc content, begins with a block keyword and a space and
\* has no '='
HeaderLine(r, k) ==
    /\ k \notin r.suppressed
    /\ StartsWithBlockKeyword(Strip(r.content[k]))
    /\ ~Has(r.content[k], "=")

\* C20: a line that begins with a block keyword and a space and has no '=' has
\* an indentation diagnostic if and only if it has leading spaces, whatever the
\* depth before it, and the diagnostic states 0 as the expected indentation
C20_HeadersAtColumnZero ==
    \A p \in Procs : IndentDone(p) =>
        \A k \in 1..Len(an[p].r.content) : HeaderLine(an[p].r, k) =>
            /\ (DiagsAt(an[p].r.reports, k) # {})
                   <=> (LeadIn(an[p].r.content[k], {" "}) > 0)
            /\ \A d \in DiagsAt(an[p].r.reports, k) : d.msg.y = 0

(***************************************************************************)
(* C21: a line that closes one construct and opens another                 *)
(***************************************************************************)
MaxReopenLines == 3

LnBracketToBrace == <<" "," ","]"," ",":"," ","{">>

LnBracketToBraceDeep == <<" "," "," "," ","]"," ",":"," ","{">>

LnBraceToBracket == <<" "," ","}"," ",":"," ","[">>

LnBraceToBracketDeep == <<" "," "," "," ","}"," ",":"," ","[">>

ReopenAlphabet ==
    { LnLocals, LnObject, LnArray, LnBracketToBrace, LnBracketToBraceDeep,
      LnBraceToBracket, LnBraceToBracketDeep, LnInnerClose, LnClose }

ReopenCorpus == SeqsUpTo(ReopenAlphabet, MaxReopenLines) \ {<<>>}

InitReopen == InitWith(SingleJobs(ReopenCorpus), {1})

SpecReopen == InitReopen /\ [][Next]_vars

\* the closing braces and brackets of the line
Closers(line) == Count(line, "}") + Count(line, "]")

\* the scanner's state before line k
StateBefore(r, k) == IndentRunTo(IndentStart(r.tfvars, r.content), k)

\* line k is not skipped, has no '=', closes constructs of one type that are
\* open before it, and opens one of the other type
ReopenLine(r, k) ==
    /\ Strip(r.content[k]) # <<>>
    /\ ~StartsWith(Strip(r.content[k]), <<"#">>)
    /\ k \notin r.suppressed
    /\ ~Has(r.content[k], "=")
    /\ \/ /\ Count(r.content[k], "]") \in 1..StateBefore(r, k).bracket_level
          /\ Count(r.content[k], "[") = 0
          /\ Count(r.content[k], "{") > 0 /\ Count(r.content[k], "}") = 0
       \/ /\ Count(r.content[k], "}") \in 1..StateBefore(r, k).brace_level
          /\ Count(r.content[k], "{") = 0
          /\ Count(r.content[k], "[") > 0 /\ Count(r.content[k], "]") = 0

\* C21: a line that closes one construct and opens another has an indentation
\* diagnostic if and only if its leading spaces differ from
\* 2 * (depth before the line - closers on the line), the indentation of the
\* line that opened the construct it closes
C21_ReopenAlignsWithOpener ==
    \A p \in Procs : IndentDone(p) =>
        \A k \in 1..Len(an[p].r.content) : ReopenLine(an[p].r, k) =>
            ((DiagsAt(an[p].r.reports, k) # {})
                <=> (LeadIn(an[p].r.content[k], {" "})
                        # 2 * Max(0, DepthBefore(an[p].r.tfvars, an[p].r.content, k)
                                        - Closers(an[p].r.content[k]))))

(***************************************************************************)
(* C22: lines with an odd number of leading spaces                         *)
(***************************************************************************)
MaxOddLines == 3

OddIndents == {1, 3, 5, 7, 9, 11}

LnOddClose3 == <<" "," "," ","}">>

OddAlphabet ==
    { LnLocals, LnObject, LnClose, LnOddClose, LnOddClose3, LnOddLocals }
    \cup { Spaces(n) \o LnColumnZero : n \in OddIndents }

OddCorpus == SeqsUpTo(OddAlphabet, MaxOddLines) \ {<<>>}

InitOdd == InitWith(SingleJobs(OddCorpus), {1})

SpecOdd == InitOdd /\ [][Next]_vars

\* line k is checked, has no tab, does not begin with a block keyword and has
\* an odd number of leading spaces
OddLine(r, k) ==
    /\ Strip(r.content[k]) # <<>>
    /\ ~StartsWith(Strip(r.content[k]), <<"#">>)
    /\ k \notin r.suppressed
    /\ ~Has(r.content[k], "\t")
    /\ ~StartsWithBlockKeyword(Strip(r.content[k]))
    /\ LeadIn(r.content[k], {" "}) % 2 = 1

\* C22: a checked line with an odd number of leading spaces has exactly one
\* indentation diagnostic, and its expected value is even and differs from the
\* actual indentation by exactly 1
C22_OddIndentationReportedOnce ==
    \A p \in Procs : IndentDone(p) =>
        \A k \in 1..Len(an[p].r.content) : OddLine(an[p].r, k) =>
            /\ Cardinality({j \in 1..Len(an[p].r.reports) : an[p].r.reports[j].line = k}) = 1
            /\ \A d \in DiagsAt(an[p].r.reports, k) :
                   /\ d.msg.x = LeadIn(an[p].r.content[k], {" "})
                   /\ d.msg.y % 2 = 0
                   /\ d.msg.y - d.msg.x \in {-1, 1}

\* a file was scanned in which an assignment at depth 2 has 3 leading spaces
C22_ThreeSpacesAtDepthTwo ==
    \E p \in Procs :
        /\ IndentDone(p)
        /\ an[p].r.content = <<LnLocals, LnObject, Spaces(3) \o LnColumnZero>>
        /\ \E d \in DiagsAt(an[p].r.reports, 3) : d.msg.x = 3 /\ d.msg.y = 2

(***************************************************************************)
(* C23: .tfvars groups with a majority column                              *)
(***************************************************************************)
MaxMajorityMembers == 3

MaxMajorityBefore == 2

MajorityNames == { <<"a">>, <<"b">>, <<"c","c">> }

\* the lines  <name><before>= 1
MajorityLines ==
    { name \o Spaces(before) \o <<"=", " ", "1">> :
        name \in MajorityNames, before \in 1..MaxMajorityBefore }

\* one to MaxMajorityMembers assignments as a .tfvars file has them, and single
\* assignments in a locals block
MajorityCorpus ==
    (SeqsUpTo(MajorityLines, MaxMajorityMembers) \ {<<>>})
    \cup { BlockOf(<<Indented(line)>>) : line \in MajorityLines }

InitMajority == InitWith(SingleJobs(MajorityCorpus), {1})

SpecMajority == InitMajority /\ [][Next]_vars

\* the members of the group whose '=' is at index c
MembersAt(g, c) == {k \in 1..Len(g.members) : g.members[k].equals_pos = c}

\* c is shared by more than half of the members, and by at least 2, and is
\* less than 2 away from the formula index
IsMajorityColumn(g, c) ==
    /\ 2 * Cardinality(MembersAt(g, c)) > Len(g.members)
    /\ Cardinality(MembersAt(g, c)) >= 2
    /\ c - FormulaIndex(g) \in {-1, 0, 1}

\* the expected index of the group: the majority column if there is one, else
\* the formula index
ChosenIndex(g) ==
    IF \E m \in MembersOf(g) : IsMajorityColumn(g, m.equals_pos)
    THEN (CHOOSE m \in MembersOf(g) : IsMajorityColumn(g, m.equals_pos)).equals_pos
    ELSE FormulaIndex(g)

\* C23: in a .tfvars group whose members do not all have their '=' at one
\* index, every member that is not excluded and whose '=' is not at the chosen
\* expected index (the majority column if more than half of the members, and
\* at least 2, share it and it is less than 2 from the formula index, else the
\* formula index) has a 'not aligned' diagnostic
C23_OffChosenColumnIsReported ==
    \A p \in Procs :
        (AlignDone(p) /\ FileOf(p).tfvars) =>
            \A g \in GroupsOf(p) :
                (Len(g.members) >= 2 /\ ~\E m \in MembersOf(g) : AlignedAt(g, m.equals_pos)) =>
                    \A m \in MembersOf(g) :
                        (~IsExcluded(m) /\ m.equals_pos # ChosenIndex(g)) =>
                            HasNotAligned(an[p].r.reports, m.num)

(***************************************************************************)
(* C24: block headers that are indented                                    *)
(***************************************************************************)
MaxIndentedHeaderLines == 3

LnDeepTight == <<" "," "," "," ","k","k"," ","=","1">>

IndentedHeaderAlphabet ==
    { LnLocals, LnIndentedLocals, LnTight, LnDeepTight, LnInnerClose, LnClose }

IndentedHeaderCorpus == SeqsUpTo(IndentedHeaderAlphabet, MaxIndentedHeaderLines) \ {<<>>}

InitIndentedHeader == InitWith(SingleJobs(IndentedHeaderCorpus), {1})

SpecIndentedHeader == InitIndentedHeader /\ [][Next]_vars

\* line n is in the body of an extracted block whose header line has no
\* indentation
InBodyOfTopLevelBlock(content, blocks, n) ==
    \E k \in 1..Len(blocks) :
        /\ LeadIn(content[blocks[k].start], WS) = 0
        /\ blocks[k].start < n
        /\ n <= BodyEnd(content, blocks[k])

\* C24: every block that the extractor found starts on a line without
\* indentation, and every alignment diagnostic is for a line in the body of
\* such a block: an indented header line outside every block starts no block
\* and the lines after it receive no diagnostic
C24_HeadersOnlyAtColumnZero ==
    \A p \in Procs :
        (AlignDone(p) /\ ~FileOf(p).tfvars) =>
            /\ \A k \in 1..Len(an[p].r.blocks) :
                   LeadIn(FileOf(p).content[an[p].r.blocks[k].start], WS) = 0
            /\ \A k \in 1..Len(an[p].r.reports) :
                   InBodyOfTopLevelBlock(FileOf(p).content, an[p].r.blocks,
                                         an[p].r.reports[k].line)

(***************************************************************************)
(* C25: the indentation of the members of a group                          *)
(***************************************************************************)
MaxMixMembers == 3

MixNames == { <<"a">>, <<"b","b","b">> }

\* the lines  <indent><name> = 1
MixLines(indents) ==
    { Spaces(indent) \o name \o <<" ", "=", " ", "1">> :
        indent \in indents, name \in MixNames }

\* a locals block of assignments indented by 2, 3 or 4, and assignments
\* indented by 0, 1 or 2 as a .tfvars file may have them
MixCorpus ==
    { BlockOf(body) : body \in SeqsUpTo(MixLines({2, 3, 4}), MaxMixMembers) \ {<<>>} }
    \cup (SeqsUpTo(MixLines({0, 1, 2}), MaxMixMembers) \ {<<>>})

InitMix == InitWith(SingleJobs(MixCorpus), {1})

SpecMix == InitMix /\ [][Next]_vars

\* C25 as stated: the members of an alignment group, on the block path and on
\* the .tfvars path, have the same number of leading spaces
C25_SameLeadingSpaces ==
    \A p \in Procs :
        AlignDone(p) =>
            \A g \in GroupsOf(p) :
                \A m1, m2 \in MembersOf(g) :
                    LeadIn(m1.line, {" "}) = LeadIn(m2.line, {" "})

\* C25 amended: the members of an alignment group have the same indentation
\* level.  On the block path that is the leading whitespace, a tab counted up
\* to the next multiple of 2, divided by 2 and rounded down, so a line with 2
\* and a line with 3 leading spaces are in one group; on the .tfvars path,
\* where lines with an odd indentation join no group, the members have the
\* same number of leading whitespace characters
C25_SameIndentLevel ==
    \A p \in Procs :
        AlignDone(p) =>
            \A g \in GroupsOf(p) :
                \A m1, m2 \in MembersOf(g) :
                    IF FileOf(p).tfvars
                    THEN LeadIn(m1.line, WS) = LeadIn(m2.line, WS)
                    ELSE LeadLen(ExpandTabs(m1.line)) \div 2
                             = LeadLen(ExpandTabs(m2.line)) \div 2

\* a block was analysed whose lines at 2, at 3 and at 4 leading spaces make
\* two groups: the lines at 2 and 3 together, the line at 4 alone
C25_TwoLevelsInOneBlock ==
    \E p \in Procs :
        /\ AlignDone(p) /\ ~FileOf(p).tfvars
        /\ \E g1, g2 \in GroupsOf(p) :
               /\ {LeadIn(m.line, {" "}) : m \in MembersOf(g1)} = {2, 3}
               /\ {LeadIn(m.line, {" "}) : m \in MembersOf(g2)} = {4}

(***************************************************************************)
(* C26: comment-only lines between the lines of a file                     *)
(***************************************************************************)
MaxCommentBody == 2

CommentBodyLines ==
    { <<" "," ","a"," ","=","1">>, <<" "," ","a"," ","="," ","1">>, <<" "," ","b","b","b"," ","="," ","1">> }

FlatCommentLines ==
    { <<"a"," ","=","1">>, <<"a"," ","="," ","1">>, <<"b","b","b"," ","="," ","1">> }

\* lines whose first non-space character is #
CommentOnlyLines ==
    { LnComment, <<" "," ","#"," ","c">>, <<" "," ","#"," ","}">>, <<" "," ","#"," ","x"," ","="," ","1">> }

\* the file with one more line after its line number after
InsertAt(content, after, line) ==
    Slice(content, 0, after) \o <<line>> \o From(content, after)

\* the report calls with the line numbers below line number after moved down
\* by one
ShiftFrom(reports, after) ==
    [k \in 1..Len(reports) |->
        IF reports[k].line > after
        THEN [reports[k] EXCEPT !.line = @ + 1]
        ELSE reports[k]]

\* files without comments: a locals block of assignments, and the assignments
\* of a .tfvars file
CommentFreeFiles ==
    { BlockOf(body) : body \in SeqsUpTo(CommentBodyLines, MaxCommentBody) \ {<<>>} }
    \cup (SeqsUpTo(FlatCommentLines, MaxCommentBody) \ {<<>>})

\* one worker: a rule on a file, then the same rule on the file with a
\* comment-only line inserted between two of its lines
CommentJobs ==
    UNION { { <<Job(engine, file_is_tfvars, content),
                Job(engine, file_is_tfvars, InsertAt(content, after, line))>> :
                after \in 1..(Len(content) - 1), line \in CommentOnlyLines } :
            engine \in Engines, file_is_tfvars \in BOOLEAN,
            content \in CommentFreeFiles }

InitCommentLine == InitWith(CommentJobs, {1})

SpecCommentLine == InitCommentLine /\ [][Next]_vars

\* the line number after which the second file has its inserted line
InsertedAfter ==
    CHOOSE after \in 1..(Len(jobs[1].content) - 1) :
        \E line \in CommentOnlyLines :
            jobs[2].content = InsertAt(jobs[1].content, after, line)

\* C26: a comment-only line inserted between two lines of a block or of a
\* .tfvars file changes nothing in the alignment diagnostics but the line
\* numbers of those below it
C26_CommentLineOnlyShifts ==
    (Len(out) = 2 /\ jobs[1].engine = "align") =>
        /\ out[2].crashed = out[1].crashed
        /\ out[2].reports = ShiftFrom(out[1].reports, InsertedAfter)

(***************************************************************************)
(* C27: parameters before and after a nested construct                     *)
(***************************************************************************)
MaxNestedBody == 2

\* declaration line and closing line of  name = {...},  name = [...],
\* object({...})  and  list(object({...})), the last one also as the first
\* argument of a call, with a closing line that has balanced brackets
NestedConstructs ==
    { <<<<" "," ","t"," ","="," ","{">>, LnInnerClose>>,
      <<LnArray, <<" "," ","]">>>>,
      <<<<" "," ","t"," ","="," ","o","b","j","e","c","t","(","{">>, <<" "," ","}",")">>>>,
      <<<<" "," ","v"," ","="," ","l","i","s","t","(","o","b","j","e","c","t","(","{">>, <<" "," ","}",")",")">>>>,
      <<<<" "," ","v"," ","="," ","o","p","t","i","o","n","a","l","(","l","i","s","t","(","o","b","j","e","c","t","(","{">>, <<" "," ","}",")",")",","," ","[","]",")">>>> }

NestedBodyLines == { <<" "," "," "," ","k"," ","="," ","1">>, <<" "," "," "," ","m","m"," ","="," ","1">>, LnBlank }

BlankOrNothing == { <<>>, <<LnBlank>> }

\* a locals block: a parameter, a nested construct with its body, a parameter,
\* with or without blank lines before, inside and after the construct
NestedCorpus ==
    { BlockOf(<<LnParam>> \o before \o <<construct[1]>> \o body
                  \o <<construct[2]>> \o after \o <<<<" "," ","b","b","b"," ","="," ","1">>>>) :
        before \in BlankOrNothing, after \in BlankOrNothing,
        construct \in NestedConstructs,
        body \in SeqsUpTo(NestedBodyLines, MaxNestedBody) }

InitNested == InitWith(SingleJobs(NestedCorpus), {1})

SpecNested == InitNested /\ [][Next]_vars

\* the line declares a nested construct: an assignment that ends with an
\* opening brace or bracket
DeclaresNested(line) ==
    /\ IsParamLine(line)
    /\ \/ EndsWith(Strip(line), <<"{">>)
       \/ EndsWith(Strip(line), <<"[">>)

\* line c closes the construct declared on line d: the first line below d
\* with the indentation of d, and it starts with a closing brace or bracket
ClosesNested(content, d, c) ==
    /\ d < c
    /\ Ind(content[c]) = Ind(content[d])
    /\ \/ StartsWith(Strip(content[c]), <<"}">>)
       \/ StartsWith(Strip(content[c]), <<"]">>)
    /\ \A k \in (d + 1)..(c - 1) : IsBlank(content[k]) \/ Ind(content[k]) > Ind(content[d])

\* lines i and j are parameters at the indentation of the declaration on line
\* d, i above it and j below its closing line c
AroundNested(content, i, d, c, j) ==
    /\ i < d /\ c < j
    /\ DeclaresNested(content[d])
    /\ ClosesNested(content, d, c)
    /\ IsParamLine(content[i]) /\ IsParamLine(content[j])
    /\ Ind(content[i]) = Ind(content[d])
    /\ Ind(content[j]) = Ind(content[d])

\* one alignment group has the lines of all the numbers as members
InOneGroup(p, numbers) ==
    \E g \in GroupsOf(p) : numbers \subseteq {m.num : m \in MembersOf(g)}

\* C27: in a block, the parameters before and after a nested
\* construct are in one alignment group with its declaration line when no
\* blank line lies between them outside the nested body, whatever the nested
\* body holds
C27_GroupAcrossNestedBody ==
    \A p \in Procs :
        (AlignDone(p) /\ ~FileOf(p).tfvars) =>
            LET content == FileOf(p).content
                numbers == 1..Len(content)
            IN  \A i, d, c, j \in numbers :
                    (/\ AroundNested(content, i, d, c, j)
                     /\ ~BlankBetween(content, i, d)
                     /\ ~BlankBetween(content, c, j))
                        => InOneGroup(p, {i, d, j})

\* a parameter, an object of two parameters and a parameter were analysed:
\* the outer three lines are one group and the body of the object another
C27_ObjectBetweenParameters ==
    \E p \in Procs :
        /\ AlignDone(p)
        /\ ~FileOf(p).tfvars
        /\ FileOf(p).content =
               BlockOf(<<LnParam, <<" "," ","t"," ","="," ","{">>, <<" "," "," "," ","k"," ","="," ","1">>, <<" "," "," "," ","m","m"," ","="," ","1">>,
                         LnInnerClose, <<" "," ","b","b","b"," ","="," ","1">>>>)
        /\ AroundNested(FileOf(p).content, 2, 3, 6, 7)
        /\ InOneGroup(p, {2, 3, 7})
        /\ InOneGroup(p, {4, 5})
        /\ ~InOneGroup(p, {2, 4})

(***************************************************************************)
(* C28: the text of a trailing comment                                     *)
(***************************************************************************)
MaxTrailingBody == 2

TrailingCodeLines ==
    { <<"a"," ","="," ","1">>, <<"b","b","b"," ","="," ","1">>, <<"t"," ","="," ","{">>, LnClose, <<"s"," ","="," ","\\","\"","#","\\","\"">> }

TrailingComment == <<" ","#"," ","c">>

OtherTrailingComments ==
    { <<" ","#"," ","{">>, <<" ","#"," ","}">>, <<" ","#"," ","[">>, <<" ","#"," ","=">> }

\* the file with the comment written at the end of its line number num
WithTrailing(content, num, comment) ==
    [content EXCEPT ![num] = @ \o comment]

\* assignments as a .tfvars file has them, and the same lines indented in a
\* locals block
TrailingFiles ==
    LET bodies == SeqsUpTo(TrailingCodeLines, MaxTrailingBody) \ {<<>>}
    IN  bodies \cup { BlockOf([k \in 1..Len(body) |-> Indented(body[k])]) : body \in bodies }

\* one worker: a rule on a file that has a comment at the end of one code
\* line, then the same rule on the file with another text in that comment
TrailingJobs ==
    UNION { { <<Job(engine, file_is_tfvars, WithTrailing(content, num, TrailingComment)),
                Job(engine, file_is_tfvars, WithTrailing(content, num, comment))>> :
                num \in 1..Len(content), comment \in OtherTrailingComments } :
            engine \in Engines, file_is_tfvars \in BOOLEAN, content \in TrailingFiles }

InitTrailing == InitWith(TrailingJobs, {1})

SpecTrailing == InitTrailing /\ [][Next]_vars

\* C28: the text after an unquoted # at the end of a code line has no
\* influence on the diagnostics: the file with another text in the comment
\* gets the same report calls from checkAlignment and from checkIndentation
C28_CommentTextIsIgnored ==
    Len(out) = 2 =>
        /\ out[2].crashed = out[1].crashed
        /\ out[2].reports = out[1].reports

(***************************************************************************)
(* C29: no parameter line of a block is lost by the partitioner            *)
(***************************************************************************)
MaxSuspendedBody == 4

SuspendedAlphabet ==
    { <<" "," ","a"," ","=","1">>, <<" "," ","v"," ","="," ","l","i","s","t","(","o","b","j","e","c","t","(","{">>, <<" "," "," "," ","k"," ","="," ","1">>, <<" "," ","}",")",")">>, <<" "," ","}",")",")",","," ","[","]",")">> }

\* a locals block of parameters and list(object({ constructs, closed by  }))
\* or by a line with balanced brackets, or never closed
SuspendedCorpus ==
    { BlockOf(body) : body \in SeqsUpTo(SuspendedAlphabet, MaxSuspendedBody) \ {<<>>} }

InitSuspended == InitWith(SingleJobs(SuspendedCorpus), {1})

SpecSuspended == InitSuspended /\ [][Next]_vars

\* the line numbers of the members of the alignment groups of the file
GroupedLines(p) ==
    UNION { {m.num : m \in MembersOf(g)} : g \in GroupsOf(p) }

\* C29: on the block path every line of a block body that contains = , is not
\* comment-only and is not inside a heredoc is a member of at least one group
\* of the partitioner, however the nested constructs of the block are closed
C29_EveryParameterIsGrouped ==
    \A p \in Procs :
        (AlignDone(p) /\ ~FileOf(p).tfvars) =>
            LET content == FileOf(p).content
            IN  \A n \in 1..Len(content) :
                    (/\ InBlockBody(content, n)
                     /\ IsParamLine(content[n])
                     /\ ~InHeredocSpan(content, n))
                        => n \in GroupedLines(p)

(***************************************************************************)
(* C30: the body of a heredoc                                              *)
(***************************************************************************)
MaxSwapBody == 2

SwapBodyLines == { <<"x">>, LnClose, <<"k"," ","=","1">> }

\* the lines that follow the heredoc: none, or a parameter
AfterHeredoc == { <<>>, <<LnTight>> }

\* a heredoc with the body and the lines after it, in a locals block or as a
\* .tfvars file has it
HeredocFile(in_block, body, after) ==
    LET lines == <<LnHeredocStart>> \o body \o <<LnTerminator>> \o after
    IN  IF in_block THEN BlockOf(lines) ELSE lines

\* the pairs of heredoc bodies of one length
SwapPairs ==
    UNION { { pair \in [1..n -> SwapBodyLines] \X [1..n -> SwapBodyLines] :
                pair[1] # pair[2] } : n \in 1..MaxSwapBody }

\* one worker: a rule on a file with a heredoc, then the same rule on the
\* file with other lines in the body of the heredoc
SwapJobs ==
    { <<Job(engine, file_is_tfvars, HeredocFile(in_block, pair[1], after)),
        Job(engine, file_is_tfvars, HeredocFile(in_block, pair[2], after))>> :
        engine \in Engines, file_is_tfvars \in BOOLEAN, in_block \in BOOLEAN,
        pair \in SwapPairs, after \in AfterHeredoc }

InitSwap == InitWith(SwapJobs, {1})

SpecSwap == InitSwap /\ [][Next]_vars

\* the report calls on the lines of the file that are not body lines of a heredoc
OutsideHeredoc(content, reports) ==
    SelectSeq(reports, LAMBDA rep : ~InHeredocSpan(content, rep.line))

\* C30: two files that differ only in the body lines of a heredoc get the same
\* diagnostics, from checkAlignment and from checkIndentation, on the lines
\* outside the heredoc
C30_HeredocBodyIsIgnored ==
    Len(out) = 2 =>
        /\ out[2].crashed = out[1].crashed
        /\ OutsideHeredoc(jobs[2].content, out[2].reports)
               = OutsideHeredoc(jobs[1].content, out[1].reports)

====
